---- MODULE Spec2Model ----
(***************************************************************************)
(* A model of the agent loop of open-claude-code (src/src/assistant.ts),   *)
(* its safety gate, its tool registry (src/src/tools.ts) and the           *)
(* interactive session that drives it (src/src/index.ts).                  *)
(*                                                                         *)
(* Text is a sequence of tokens.  A token is a TLA+ string: a protocol tag,*)
(* a whitespace character, a JSON literal or a run of prose without        *)
(* whitespace at its ends and without a tag inside.  The length of a text  *)
(* is the sum of the lengths of its tokens, so the token estimate counts   *)
(* characters as String.length does.  Shell commands are sequences of      *)
(* one-character strings, because the risk patterns look inside them.      *)
(***************************************************************************)
EXTENDS Integers, Sequences, FiniteSets, TLC

(***************************************************************************)
(* Bounds of the model.                                                    *)
(***************************************************************************)
\* a chat call starts only while the history holds fewer messages than this
MaxHistory == 4
\* model responses of one session drawn from the whole response alphabet;
\* every other tool-calling response is DefaultResponse
MaxRich == 1
\* saveConversation writes at most this many files in one session
MaxSaves == 1
\* plugin directories of a probed plugins folder
MaxPlugins == 2
\* blocks and stretches of prose in a probed text
MaxParts == 3
\* streamed model calls of one session
MaxStreams == 2

(***************************************************************************)
(* Text helpers.                                                           *)
(***************************************************************************)
RECURSIVE TextLen(_)
TextLen(text) ==
  IF text = <<>> THEN 0 ELSE Len(Head(text)) + TextLen(Tail(text))

RECURSIVE Concat(_)
Concat(text) ==
  IF text = <<>> THEN "" ELSE Head(text) \o Concat(Tail(text))

IsSpace(tok) == tok \in {" ", "\n", "\t"}

\* String.prototype.trim on a text: whitespace tokens at both ends go
RECURSIVE TrimLeft(_)
TrimLeft(text) ==
  IF text # <<>> /\ IsSpace(Head(text)) THEN TrimLeft(Tail(text)) ELSE text

RECURSIVE TrimRight(_)
TrimRight(text) ==
  IF text # <<>> /\ IsSpace(text[Len(text)])
  THEN TrimRight(SubSeq(text, 1, Len(text) - 1))
  ELSE text

Trim(text) == TrimRight(TrimLeft(text))

\* least index >= from holding tok, 0 when there is none
IndexFrom(text, tok, from) ==
  LET S == {i \in from..Len(text) : text[i] = tok}
  IN IF S = {} THEN 0 ELSE CHOOSE i \in S : \A j \in S : i <= j

(***************************************************************************)
(* JSON values as JSON.parse gives them.                                   *)
(***************************************************************************)
JNull == [type |-> "null", fields |-> <<>>, chars |-> <<>>]
JUndefined == [type |-> "undefined", fields |-> <<>>, chars |-> <<>>]
JNumber == [type |-> "number", fields |-> <<>>, chars |-> <<"5">>]
JStr(chars) == [type |-> "string", fields |-> <<>>, chars |-> chars]
\* fields: a sequence of <<key, value>> pairs
JObj(fields) == [type |-> "object", fields |-> fields, chars |-> <<>>]

\* params.key in JavaScript: a TypeError on null and undefined, undefined
\* when the property is missing
PropThrows(value) == value.type \in {"null", "undefined"}

Prop(value, key) ==
  LET S == {i \in 1..Len(value.fields) : value.fields[i][1] = key}
  IN IF value.type = "object" /\ S # {}
     THEN value.fields[CHOOSE i \in S : \A j \in S : j <= i][2]
     ELSE JUndefined

\* x || '' and the coercion RegExp.test and template strings apply
Truthy(value) ==
  \/ value.type \in {"object", "number"}
  \/ value.type = "string" /\ value.chars # <<>>

ToChars(value) ==
  CASE value.type = "string" -> value.chars
    [] value.type = "number" -> value.chars
    [] value.type = "null" -> <<"n", "u", "l", "l">>
    [] value.type = "undefined" ->
         <<"u", "n", "d", "e", "f", "i", "n", "e", "d">>
    [] OTHER -> <<"[", "o", "b", "j", "e", "c", "t", " ",
                  "O", "b", "j", "e", "c", "t", "]">>

(***************************************************************************)
(* The safety gate: Assistant.isDangerousCommand and                        *)
(* Assistant.getToolConfirmationMessage.                                   *)
(***************************************************************************)
\* the literal lit occurs in s at position i
At(s, i, lit) ==
  /\ i >= 1
  /\ i + Len(lit) - 1 <= Len(s)
  /\ \A k \in 1..Len(lit) : s[i + k - 1] = lit[k]

Contains(s, lit) == \E i \in 1..Len(s) : At(s, i, lit)

\* \s of a regular expression
IsWs(c) == c \in {" ", "\t", "\n", "\r"}

\* . of a regular expression matches every character of s[a..b]
DotAll(s, a, b) == \A k \in a..b : s[k] \notin {"\n", "\r"}

\* /rm\s+-rf/
MatchRmRf(s) ==
  \E i \in 1..Len(s) :
    /\ At(s, i, <<"r", "m">>)
    /\ \E j \in (i + 3)..Len(s) :
         /\ \A k \in (i + 2)..(j - 1) : IsWs(s[k])
         /\ At(s, j, <<"-", "r", "f">>)

\* /dd\s+/
MatchDd(s) ==
  \E i \in 1..Len(s) :
    At(s, i, <<"d", "d">>) /\ i + 2 <= Len(s) /\ IsWs(s[i + 2])

\* />.*\/dev\//
MatchDevWrite(s) ==
  \E i \in 1..Len(s) :
    /\ s[i] = ">"
    /\ \E j \in (i + 1)..Len(s) :
         At(s, j, <<"/", "d", "e", "v", "/">>) /\ DotAll(s, i + 1, j - 1)

\* /curl.*\|.*sh/ and /wget.*\|.*sh/
MatchPipeToShell(s, fetch) ==
  \E i \in 1..Len(s) :
    /\ At(s, i, fetch)
    /\ \E j \in (i + Len(fetch))..Len(s) :
         /\ s[j] = "|"
         /\ \E k \in (j + 1)..Len(s) :
              At(s, k, <<"s", "h">>) /\ DotAll(s, i + Len(fetch), k - 1)

\* dangerousPatterns, in the order of the source
dangerousPatterns ==
  <<"rm-rf", "sudo", "chmod", "chown", "dd", "mkfs", "format", "dev",
    "curl|sh", "wget|sh">>

PatternTest(pattern, s) ==
  CASE pattern = "rm-rf" -> MatchRmRf(s)
    [] pattern = "sudo" -> Contains(s, <<"s", "u", "d", "o">>)
    [] pattern = "chmod" -> Contains(s, <<"c", "h", "m", "o", "d">>)
    [] pattern = "chown" -> Contains(s, <<"c", "h", "o", "w", "n">>)
    [] pattern = "dd" -> MatchDd(s)
    [] pattern = "mkfs" -> Contains(s, <<"m", "k", "f", "s">>)
    [] pattern = "format" -> Contains(s, <<"f", "o", "r", "m", "a", "t">>)
    [] pattern = "dev" -> MatchDevWrite(s)
    [] pattern = "curl|sh" -> MatchPipeToShell(s, <<"c", "u", "r", "l">>)
    [] pattern = "wget|sh" -> MatchPipeToShell(s, <<"w", "g", "e", "t">>)

dangerousTools == {"execute_command", "write_file", "edit_file", "git_commit"}

\* the result of a call: the value returned, or threw = TRUE for a TypeError
Returned(v) == [threw |-> FALSE, value |-> v]
Threw(v) == [threw |-> TRUE, value |-> v]

isDangerousCommand(confirmMode, toolName, params) ==
  IF ~confirmMode THEN Returned(FALSE)
  ELSE IF toolName \notin dangerousTools THEN Returned(FALSE)
  ELSE IF toolName = "execute_command"
  THEN IF PropThrows(params) THEN Threw(FALSE)
       ELSE LET command == Prop(params, "command")
                cmd == IF Truthy(command) THEN ToChars(command) ELSE <<>>
            IN Returned(\E p \in 1..Len(dangerousPatterns) :
                          PatternTest(dangerousPatterns[p], cmd))
  ELSE Returned(TRUE)

ConfirmationSubject(toolName) ==
  CASE toolName = "execute_command" -> <<"Execute command: ", "command">>
    [] toolName = "write_file" -> <<"Write file: ", "file_path">>
    [] toolName = "edit_file" -> <<"Edit file: ", "file_path">>
    [] toolName = "git_commit" -> <<"Git commit with message: ", "message">>
    [] OTHER -> <<"Execute tool: ", "">>

getToolConfirmationMessage(toolName, params) ==
  LET subject == ConfirmationSubject(toolName)
  IN IF subject[2] = "" THEN Returned(<<subject[1], toolName>>)
     ELSE IF PropThrows(params) THEN Threw(<<>>)
     ELSE Returned(<<subject[1], Concat(ToChars(Prop(params, subject[2])))>>)

(***************************************************************************)
(* The tool-call protocol: Assistant.extractToolUses and                   *)
(* Assistant.cleanResponse.                                                *)
(***************************************************************************)
TU_OPEN == "<tool_use>"
TU_CLOSE == "</tool_use>"
TN_OPEN == "<tool_name>"
TN_CLOSE == "</tool_name>"
P_OPEN == "<parameters>"
P_CLOSE == "</parameters>"

\* shell commands, one character per element
CmdRmRf ==
  <<"r", "m", " ", "-", "r", "f", " ", "n", "o", "d", "e", "_",
    "m", "o", "d", "u", "l", "e", "s">>
CmdLs == <<"l", "s", " ", "-", "l", "a">>
PathA == <<"a", ".", "t", "x", "t">>
PathMissing == <<"m", "i", "s", "s", "i", "n", "g", ".", "t", "x", "t">>
PathOut == <<"o", "u", "t", ".", "t", "x", "t">>

\* the JSON literals the model writes, as tokens
J_ReadA == "{\"file_path\":\"a.txt\"}"
J_ReadMissing == "{\"file_path\":\"missing.txt\"}"
J_Write == "{\"file_path\":\"out.txt\",\"content\":\"x\"}"
J_RmRf == "{\"command\":\"rm -rf node_modules\"}"
J_Ls == "{\"command\":\"ls -la\"}"
J_Null == "null"
J_Bad == "{\"file_path\": a.txt"

\* JSON.parse of one literal: ok = FALSE is a SyntaxError
JsonLiteral(tok) ==
  CASE tok = J_ReadA ->
         [ok |-> TRUE, value |-> JObj(<<<<"file_path", JStr(PathA)>>>>)]
    [] tok = J_ReadMissing ->
         [ok |-> TRUE, value |-> JObj(<<<<"file_path", JStr(PathMissing)>>>>)]
    [] tok = J_Write ->
         [ok |-> TRUE,
          value |-> JObj(<<<<"file_path", JStr(PathOut)>>,
                           <<"content", JStr(<<"x">>)>>>>)]
    [] tok = J_RmRf ->
         [ok |-> TRUE, value |-> JObj(<<<<"command", JStr(CmdRmRf)>>>>)]
    [] tok = J_Ls ->
         [ok |-> TRUE, value |-> JObj(<<<<"command", JStr(CmdLs)>>>>)]
    [] tok = J_Null -> [ok |-> TRUE, value |-> JNull]
    [] OTHER -> [ok |-> FALSE, value |-> JUndefined]

\* JSON.parse(text): a text is valid JSON when it is one valid literal
JsonParse(text) ==
  IF Len(text) = 1 THEN JsonLiteral(text[1])
  ELSE [ok |-> FALSE, value |-> JUndefined]

NoMatch == [found |-> FALSE, group |-> <<>>]

\* /<tool_name>(.*?)<\/tool_name>/.exec(content): the leftmost opening tag
\* that a closing tag follows on the same line
NameMatch(content) ==
  LET Closes(o) == IndexFrom(content, TN_CLOSE, o + 1)
      S == {o \in 1..Len(content) :
              /\ content[o] = TN_OPEN
              /\ Closes(o) # 0
              /\ \A k \in (o + 1)..(Closes(o) - 1) : content[k] # "\n"}
  IN IF S = {} THEN NoMatch
     ELSE LET o == CHOOSE i \in S : \A j \in S : i <= j
          IN [found |-> TRUE, group |-> SubSeq(content, o + 1, Closes(o) - 1)]

\* /<parameters>([\s\S]*?)<\/parameters>/.exec(content)
ParamsMatch(content) ==
  LET o == IndexFrom(content, P_OPEN, 1)
      c == IF o = 0 THEN 0 ELSE IndexFrom(content, P_CLOSE, o + 1)
  IN IF c = 0 THEN NoMatch
     ELSE [found |-> TRUE, group |-> SubSeq(content, o + 1, c - 1)]

\* variant: a block with a name and without a parameters field is a call
\* with parameters null
BlockToolUsesNameOnly(toolContent) ==
  LET nameMatch == NameMatch(toolContent)
      paramsMatch == ParamsMatch(toolContent)
  IN IF nameMatch.found /\ paramsMatch.found
     THEN LET parsed == JsonParse(Trim(paramsMatch.group))
          IN IF parsed.ok
             THEN <<[name |-> Concat(Trim(nameMatch.group)),
                     parameters |-> parsed.value]>>
             ELSE <<>>
     ELSE IF nameMatch.found
     THEN <<[name |-> Concat(Trim(nameMatch.group)), parameters |-> JNull]>>
     ELSE <<>>

\* the tool uses of one block: one, or none when the block is dropped
BlockToolUses(toolContent) ==
  LET nameMatch == NameMatch(toolContent)
      paramsMatch == ParamsMatch(toolContent)
  IN IF nameMatch.found /\ paramsMatch.found
     THEN LET parsed == JsonParse(Trim(paramsMatch.group))
          IN IF parsed.ok
             THEN <<[name |-> Concat(Trim(nameMatch.group)),
                     parameters |-> parsed.value]>>
             ELSE <<>>
     ELSE <<>>

\* the loop over /<tool_use>([\s\S]*?)<\/tool_use>/g from position from
RECURSIVE ToolUsesFrom(_, _)
ToolUsesFrom(text, from) ==
  LET o == IndexFrom(text, TU_OPEN, from)
      c == IF o = 0 THEN 0 ELSE IndexFrom(text, TU_CLOSE, o + 1)
  IN IF c = 0 THEN <<>>
     ELSE BlockToolUses(SubSeq(text, o + 1, c - 1)) \o ToolUsesFrom(text, c + 1)

extractToolUses(text) == ToolUsesFrom(text, 1)

\* variant: the match runs to the last closing delimiter of the text
StripFromGreedy(text, from) ==
  LET o == IndexFrom(text, TU_OPEN, from)
      S == {c \in (o + 1)..Len(text) : text[c] = TU_CLOSE}
  IN IF o = 0 \/ S = {} THEN SubSeq(text, from, Len(text))
     ELSE SubSeq(text, from, o - 1)
            \o SubSeq(text, (CHOOSE c \in S : \A d \in S : d <= c) + 1,
                      Len(text))

\* text.replace(/<tool_use>[\s\S]*?<\/tool_use>/g, '')
RECURSIVE StripFrom(_, _)
StripFrom(text, from) ==
  LET o == IndexFrom(text, TU_OPEN, from)
      c == IF o = 0 THEN 0 ELSE IndexFrom(text, TU_CLOSE, o + 1)
  IN IF c = 0 THEN SubSeq(text, from, Len(text))
     ELSE SubSeq(text, from, o - 1) \o StripFrom(text, c + 1)

\* variant: the blocks go, the whitespace at the ends stays
cleanResponseUntrimmed(text) == StripFrom(text, 1)

cleanResponse(text) == Trim(StripFrom(text, 1))

(***************************************************************************)
(* The tool registry: getAvailableTools and PluginManager.loadPlugins.     *)
(***************************************************************************)
\* the built-in descriptors in declaration order; readsArgs tells whether
\* the execute wrapper reads a property of its argument
BuiltIn(name, readsArgs) ==
  [name |-> name, plugin |-> FALSE, readsArgs |-> readsArgs,
   origin |-> "built-in"]

builtInTools ==
  << BuiltIn("read_file", TRUE), BuiltIn("write_file", TRUE),
     BuiltIn("edit_file", TRUE), BuiltIn("list_files", TRUE),
     BuiltIn("execute_command", TRUE), BuiltIn("glob", TRUE),
     BuiltIn("grep", TRUE), BuiltIn("analyze_image", TRUE),
     BuiltIn("git_status", FALSE), BuiltIn("git_diff", TRUE),
     BuiltIn("git_add", TRUE), BuiltIn("git_commit", TRUE),
     BuiltIn("git_branch", TRUE), BuiltIn("git_checkout", TRUE),
     BuiltIn("workspace_files", TRUE), BuiltIn("run_linter", TRUE),
     BuiltIn("run_tests", TRUE), BuiltIn("analyze_code", TRUE),
     BuiltIn("web_search", TRUE), BuiltIn("rag_index_file", TRUE),
     BuiltIn("rag_index_directory", TRUE), BuiltIn("rag_search", TRUE),
     BuiltIn("rag_info", FALSE), BuiltIn("rag_clear", FALSE),
     BuiltIn("browser_launch", TRUE), BuiltIn("browser_navigate", TRUE),
     BuiltIn("browser_get_content", FALSE), BuiltIn("browser_get_text", FALSE),
     BuiltIn("browser_screenshot", TRUE), BuiltIn("browser_click", TRUE),
     BuiltIn("browser_type", TRUE), BuiltIn("browser_wait_for_selector", TRUE),
     BuiltIn("browser_evaluate", TRUE), BuiltIn("browser_close", FALSE) >>

\* part_002 162-177: a plugin tool goes under the plugin_ prefix; origin
\* stands for its description and handler, which name the plugin
PluginTool(toolName, pluginName) ==
  [name |-> "plugin_" \o toolName, plugin |-> TRUE, readsArgs |-> FALSE,
   origin |-> pluginName]

\* part_002 149-178: the tools of one manifest from position i on.  A
\* missing handler skips the tool; a handler that fails to load ends the
\* plugin, keeping what was pushed
RECURSIVE PluginToolsOf(_, _)
PluginToolsOf(manifest, i) ==
  IF i > Len(manifest.tools) THEN <<>>
  ELSE LET tool == manifest.tools[i]
       IN CASE tool.handler = "missing" -> PluginToolsOf(manifest, i + 1)
            [] tool.handler = "throws" -> <<>>
            [] OTHER -> <<PluginTool(tool.name, manifest.name)>>
                          \o PluginToolsOf(manifest, i + 1)

\* part_002 124-185: pluginDirs is what the plugins folder holds, in
\* readdir order; valid = FALSE: the manifest is not JSON
RECURSIVE loadPlugins(_)
loadPlugins(pluginDirs) ==
  IF pluginDirs = <<>> THEN <<>>
  ELSE (IF Head(pluginDirs).valid THEN PluginToolsOf(Head(pluginDirs), 1)
        ELSE <<>>) \o loadPlugins(Tail(pluginDirs))

getAvailableTools(pluginDirs) == builtInTools \o loadPlugins(pluginDirs)

\* the plugins folder of the sessions: one plugin with one tool
InstalledPlugins ==
  <<[name |-> "example", valid |-> TRUE,
     tools |-> <<[name |-> "my_tool", handler |-> "ok"]>>]>>

NoTool ==
  [name |-> "", plugin |-> FALSE, readsArgs |-> FALSE, origin |-> ""]

\* variant: the last match
FindToolLast(tools, name) ==
  LET S == {i \in 1..Len(tools) : tools[i].name = name}
  IN IF S = {} THEN NoTool ELSE tools[CHOOSE i \in S : \A j \in S : j <= i]

\* this.tools.find((t) => t.name === name): the first match, NoTool if none
FindTool(tools, name) ==
  LET S == {i \in 1..Len(tools) : tools[i].name = name}
  IN IF S = {} THEN NoTool ELSE tools[CHOOSE i \in S : \A j \in S : i <= j]

\* a Tool Result
Success(output) == [success |-> TRUE, output |-> output, error |-> ""]
Failure(error) == [success |-> FALSE, output |-> "", error |-> error]

\* tool.execute(args): what the promise settles to.  outcome is what the
\* operation behind the tool does: "ok" or "fail"
Execute(tool, args, outcome) ==
  IF ~tool.plugin /\ tool.readsArgs /\ PropThrows(args)
  THEN Threw(Failure("Cannot read properties of null"))
  ELSE IF outcome = "ok" THEN Returned(Success("done"))
  ELSE Returned(Failure("ENOENT: no such file or directory"))

(***************************************************************************)
(* Calls of the pure functions on inputs drawn from bounded sets.  probe   *)
(* is the call, probeResult what it gave.                                  *)
(***************************************************************************)
\* commands that match a risk pattern
CmdRmRfRoot ==
  <<"r", "m", " ", "-", "r", "f", " ", "/">>
CmdRmTwoSpaces ==
  <<"r", "m", " ", " ", "-", "r", "f", " ", "x">>
CmdSudo ==
  <<"s", "u", "d", "o", " ", "l", "s">>
CmdChmod ==
  <<"c", "h", "m", "o", "d", " ", "7", "7", "7", " ", "f">>
CmdChown ==
  <<"c", "h", "o", "w", "n", " ", "a", " ", "f">>
CmdDd ==
  <<"d", "d", " ", "i", "f", "=", "x">>
CmdGitAdd ==
  <<"g", "i", "t", " ", "a", "d", "d", " ", ".">>
CmdMkfs ==
  <<"m", "k", "f", "s", ".", "e", "x", "t", "4", " ", "x">>
CmdInformation ==
  <<"e", "c", "h", "o", " ", "i", "n", "f", "o", "r", "m", "a", "t", "i",
    "o", "n">>
CmdDevWrite ==
  <<"e", "c", "h", "o", " ", "x", " ", ">", " ", "/", "d", "e", "v", "/",
    "s", "d", "a">>
CmdCurlSh ==
  <<"c", "u", "r", "l", " ", "x", " ", "|", " ", "s", "h">>
CmdWgetBash ==
  <<"w", "g", "e", "t", " ", "x", " ", "|", " ", "b", "a", "s", "h">>
\* commands that match none
CmdRmSplit ==
  <<"r", "m", " ", "-", "r", " ", "-", "f", " ", "x">>
CmdRmNoSpace ==
  <<"r", "m", "-", "r", "f", " ", "x">>
CmdCatDev ==
  <<"c", "a", "t", " ", "/", "d", "e", "v", "/", "n", "u", "l", "l">>
CmdCurl ==
  <<"c", "u", "r", "l", " ", "x">>
CmdDevNewline ==
  <<"e", "c", "h", "o", " ", "x", " ", ">", "\n", "/", "d", "e", "v", "/",
    "s", "d", "a">>
CmdDdAlone ==
  <<"d", "d">>
CmdEmpty == <<>>
RiskyCommands ==
  {CmdRmRf, CmdRmRfRoot, CmdRmTwoSpaces, CmdSudo, CmdChmod, CmdChown,
   CmdDd, CmdGitAdd, CmdMkfs, CmdInformation, CmdDevWrite,
   CmdCurlSh, CmdWgetBash}
SafeCommands ==
  {CmdLs, CmdRmSplit, CmdRmNoSpace, CmdCatDev, CmdCurl,
   CmdDevNewline, CmdDdAlone, CmdEmpty}
\* the argument bags JSON.parse can give
ParameterBags ==
  {JObj(<<<<"command", JStr(c)>>>>) : c \in RiskyCommands \cup SafeCommands}
  \cup {JNull, JNumber, JObj(<<>>), JStr(CmdSudo),
        JObj(<<<<"file_path", JStr(PathA)>>>>),
        JObj(<<<<"message", JStr(CmdLs)>>>>)}

GateNames ==
  {"execute_command", "write_file", "edit_file", "git_commit", "read_file",
   "git_status", "plugin_my_tool", "no_such_tool"}

GateCalls ==
  [fn : {"isDangerousCommand"}, mode : BOOLEAN, name : GateNames,
   params : ParameterBags, tool : {NoTool}, outcome : {"ok"},
   pluginDirs : {<<>>}, parts : {<<>>}]

ExecuteCalls ==
  [fn : {"execute"}, mode : {FALSE}, name : {""},
   params : {JNull, JNumber, JObj(<<>>), JStr(CmdLs),
             JObj(<<<<"file_path", JStr(PathA)>>>>)},
   tool : {getAvailableTools(InstalledPlugins)[i] :
             i \in 1..Len(getAvailableTools(InstalledPlugins))},
   outcome : {"ok", "fail"}, pluginDirs : {<<>>}, parts : {<<>>}]

\* lookups in the registry built over a plugins folder of up to MaxPlugins
\* directories: plugins that declare the same tool, a manifest that is not
\* JSON, a tool named as a built-in is, a tool declared twice, handlers that
\* are missing or fail to load
RegistryCalls ==
  LET Tool(name, handler) == [name |-> name, handler |-> handler]
      Manifests ==
        {[name |-> "alpha", valid |-> TRUE,
          tools |-> <<Tool("my_tool", "ok")>>],
         [name |-> "beta", valid |-> TRUE,
          tools |-> <<Tool("my_tool", "ok"), Tool("read_file", "ok")>>],
         [name |-> "gamma", valid |-> FALSE, tools |-> <<>>],
         [name |-> "delta", valid |-> TRUE,
          tools |-> <<Tool("twice", "ok"), Tool("my_tool", "missing"),
                      Tool("twice", "ok"), Tool("late", "throws"),
                      Tool("my_tool", "ok")>>]}
  IN [fn : {"find"}, mode : {FALSE},
      name : {"plugin_my_tool", "plugin_twice", "plugin_read_file",
              "read_file", "plugin_late"},
      params : {JUndefined}, tool : {NoTool}, outcome : {"ok"},
      pluginDirs : UNION {[1..n -> Manifests] : n \in 0..MaxPlugins},
      parts : {<<>>}]


NoProbe ==
  [fn |-> "none", mode |-> FALSE, name |-> "", params |-> JUndefined,
   tool |-> NoTool, outcome |-> "ok", pluginDirs |-> <<>>, parts |-> <<>>]

Pending == [done |-> FALSE, threw |-> FALSE, value |-> FALSE]

(***************************************************************************)
(* The agent loop: the state of one Assistant and of the session that      *)
(* drives it.                                                              *)
(***************************************************************************)
VARIABLES
  entry,                \* "cli": built by runChat; "api": built by a caller
  userConfig,           \* what ConfigManager.getConfig returns
  requireConfirmation,
  tokenLimit,           \* 0 stands for undefined (and for 0, equally falsy)
  tools,
  conversationHistory,
  toolUseCount,
  estimatedTokens,
  pc,                   \* "idle", or where the running chat call waits
  callback,             \* a confirmationCallback was passed to chat
  iteration,
  response,
  toolUses,
  toolIndex,            \* the invocation of the batch executeTool works on
  toolResults,
  confirmState,         \* of that invocation: "none", "approved", "denied"
  chatKind,             \* how the last chat call ended
  chatResult,           \* what it returned
  rich,                 \* responses drawn from RichResponses so far
  modelCalls,           \* model calls of the last chat call
  allToolCalls,         \* each of them answered with a tool use
  historyAtStart,       \* the history when the last chat call began
  probe,                \* a call of a pure function, NoProbe in a session
  probeResult,          \* what that call gave
  files,                \* ~/.occ-conversations: name -> file
  saved,                \* what the assistant held at the last successful save
  saves,                \* files written so far
  storeResult,          \* how the last save or load ended, "none" once
                        \* another operation began
  stream,               \* the fragments chatStream has still to yield
  chunks,               \* those the for await of chat has received:
                        \* aiResponse is their concatenation
  streams,              \* streamed model calls so far
  writers,              \* the saves under way, of this and of another
                        \* process on the same directory
  browser,              \* ToolSystem.browser is set
  page                  \* ToolSystem.page: where the page is, NoPage for null

vars ==
  <<entry, userConfig, requireConfirmation, tokenLimit, tools,
    conversationHistory, toolUseCount, estimatedTokens, pc, callback,
    iteration, response, toolUses, toolIndex, toolResults, confirmState,
    chatKind, chatResult, rich, modelCalls, allToolCalls,
    historyAtStart, probe, probeResult, files, saved, saves, storeResult,
    stream, chunks, streams, writers, browser, page>>

\* the browser of the ToolSystem
toolSystemVars == <<browser, page>>

\* the streamed model call under way
streamVars == <<stream, chunks, streams>>

\* the conversations directory and what is remembered of the last save
storeVars == <<files, saved, saves, writers>>

configVars ==
  <<entry, userConfig, requireConfirmation, tokenLimit, tools, probe,
    probeResult>>

maxIterations == 5

Message(role, content) == [role |-> role, content |-> content]

\* stands for the text buildSystemPrompt returns
SystemPrompt ==
  <<"You are a helpful coding assistant running locally via Ollama.">>

\* AssistantConfig: has holds the optional fields that are present
AssistantConfigs ==
  {[has |-> {}, tokenLimit |-> 0, requireConfirmation |-> FALSE]}
  \cup [has : {{"tokenLimit", "requireConfirmation"}},
        tokenLimit : {0, 24}, requireConfirmation : BOOLEAN]

\* the content of ~/.occ-config.json beside model and ollamaBaseURL
UserConfigs ==
  {[has |-> {}, tokenLimit |-> 0, requireConfirmation |-> FALSE],
   [has |-> {"tokenLimit", "requireConfirmation"},
    tokenLimit |-> 24, requireConfirmation |-> TRUE]}

\* the AssistantConfig runChat passes to Assistant.create: model,
\* ollamaBaseURL, workingDirectory, streaming and customSystemPrompt
RunChatConfig(config) ==
  [has |-> {}, tokenLimit |-> 0, requireConfirmation |-> FALSE]

\* config.requireConfirmation ?? false
ConfigRequireConfirmation(config) ==
  IF "requireConfirmation" \in config.has
  THEN config.requireConfirmation ELSE FALSE

ConfigTokenLimit(config) ==
  IF "tokenLimit" \in config.has THEN config.tokenLimit ELSE 0

\* Math.ceil(text.length / 4)
estimateTokens(text) == (TextLen(text) + 3) \div 4

\* updateTokenCount: the sum over the history
RECURSIVE SumTokens(_)
SumTokens(history) ==
  IF history = <<>> THEN 0
  ELSE estimateTokens(Head(history).content) + SumTokens(Tail(history))

\* variant: the comparison lets an estimate equal to the limit through
checkTokenLimitInclusive(limit, estimated) ==
  IF limit = 0 THEN TRUE ELSE estimated <= limit

checkTokenLimit(limit, estimated) ==
  IF limit = 0 THEN TRUE ELSE estimated < limit

\* the warning chat returns (without its leading warning sign)
TokenWarning(estimated, limit) ==
  <<"Token limit reached (", ToString(estimated), "/", ToString(limit),
    "). Consider clearing history with /clear or increasing the limit.">>

(***************************************************************************)
(* What the environment supplies: user messages, model responses, the      *)
(* world the tools act on.                                                 *)
(***************************************************************************)
Block(name, json) ==
  <<TU_OPEN, "\n", TN_OPEN, name, TN_CLOSE, "\n",
    P_OPEN, "\n", json, "\n", P_CLOSE, "\n", TU_CLOSE>>

\* a final answer
PlainResponse == <<" ", "All", " ", "done.", "\n">>

\* prose and one safe tool call
DefaultResponse ==
  <<"Reading", " ", "the", " ", "file.", "\n">> \o Block("read_file", J_ReadA)

\* a dangerous call, then a safe one that fails
WriteThenRead ==
  Block("write_file", J_Write) \o <<"\n">> \o Block("read_file", J_ReadMissing)

\* the shell command of the README, then a harmless one
ShellCommands ==
  <<"Deleting.", "\n">> \o Block("execute_command", J_RmRf)
    \o Block("execute_command", J_Ls)

\* calls whose parameters are the JSON value null
NullParameters ==
  Block("write_file", J_Write) \o Block("read_file", J_Null)
    \o Block("execute_command", J_Null) \o Block("read_file", J_ReadA)

\* a text as the model writes it, part after part
RECURSIVE Flatten(_)
Flatten(parts) ==
  IF parts = <<>> THEN <<>> ELSE Head(parts) \o Flatten(Tail(parts))

\* a call, three blocks that are not calls (parameters that are not JSON, no
\* name, no parameters), the first call again, a call of a tool that no
\* registry holds (with the command of the README), a shell call with
\* parameters null, and a last call
MalformedParts ==
  <<Block("read_file", J_ReadA), <<"\n">>, Block("read_file", J_Bad),
    <<TU_OPEN, P_OPEN, J_ReadA, P_CLOSE, TU_CLOSE>>,
    <<TU_OPEN, "\n", TN_OPEN, "read_file", TN_CLOSE, "\n", TU_CLOSE>>,
    Block("read_file", J_ReadA), Block("run_shell", J_RmRf),
    Block("execute_command", J_Null), Block("read_file", J_ReadMissing)>>

RichResponses ==
  {WriteThenRead, ShellCommands, NullParameters, Flatten(MalformedParts)}

\* stretches of prose, and blocks: two well-formed ones, one whose name is
\* padded, one with parameters null, one with parameters that are not JSON,
\* one without a name, one without parameters, an empty one
TextParts ==
  {<<"Hello", " ", "world.">>, <<"\n">>, <<" ", "Done.", " ">>,
   Block("read_file", J_ReadA), Block("execute_command", J_Ls),
   <<TU_OPEN, TN_OPEN, " ", "read_file", " ", TN_CLOSE,
     P_OPEN, J_ReadMissing, P_CLOSE, TU_CLOSE>>,
   Block("read_file", J_Null), Block("read_file", J_Bad),
   <<TU_OPEN, P_OPEN, J_ReadA, P_CLOSE, TU_CLOSE>>,
   <<TU_OPEN, "\n", TN_OPEN, "read_file", TN_CLOSE, "\n", TU_CLOSE>>,
   <<TU_OPEN, TU_CLOSE>>}

\* calls of cleanResponse and extractToolUses on texts of up to MaxParts
\* parts
TextCalls ==
  [fn : {"cleanResponse", "extractToolUses"}, mode : {FALSE}, name : {""},
   params : {JUndefined}, tool : {NoTool}, outcome : {"ok"},
   pluginDirs : {<<>>},
   parts : UNION {[1..n -> TextParts] : n \in 0..MaxParts}]

(***************************************************************************)
(* OllamaClient.chatStream (index.ts 375-415).  A response body is a       *)
(* sequence of transport chunks; a chunk is a sequence of pieces of text,  *)
(* the line feed being a piece of its own.                                 *)
(***************************************************************************)
\* a line of the body carrying a delta, as the endpoint writes it
NdLine(content) == "{\"message\":{\"content\":\"" \o content \o "\"}}"

\* buffer.split('\n'): the lines of a text, the last one being what follows
\* the last line feed
RECURSIVE SplitLines(_)
SplitLines(text) ==
  LET n == IndexFrom(text, "\n", 1)
  IN IF n = 0 THEN <<text>>
     ELSE <<SubSeq(text, 1, n - 1)>>
            \o SplitLines(SubSeq(text, n + 1, Len(text)))

\* lines 396-406 for one line: what is yielded for it.  Nothing for a blank
\* line, for a line JSON.parse throws on, for the JSON value null (the read
\* of data.message throws inside the try) and for a line without content
LineDelta(line) ==
  LET str == Concat(line)
  IN IF \A i \in 1..Len(line) : line[i] \in {"", " ", "\t"} THEN <<>>
     ELSE IF str = NdLine("Hel") THEN <<"Hel">>
     ELSE IF str = NdLine("lo") THEN <<"lo">>
     ELSE <<>>

\* the for loop over the complete lines
RECURSIVE LinesYield(_)
LinesYield(lines) ==
  IF lines = <<>> THEN <<>>
  ELSE LineDelta(Head(lines)) \o LinesYield(Tail(lines))

\* lines 391-407: the for await over the chunks of the body, with the buffer
\* carried from chunk to chunk; what the generator yields, in order
RECURSIVE chatStream(_, _)
chatStream(body, buffer) ==
  IF body = <<>> THEN <<>>
  ELSE LET lines == SplitLines(buffer \o Head(body))
       IN LinesYield(SubSeq(lines, 1, Len(lines) - 1))
            \o chatStream(Tail(body), lines[Len(lines)])

\* calls of chatStream on bodies of up to MaxParts chunks: whole lines with
\* and without their line feed, a line cut in two, a line that is not JSON,
\* the value null, a line without message, a line with an empty delta
StreamCalls ==
  [fn : {"chatStream"}, mode : {FALSE}, name : {""},
   params : {JUndefined}, tool : {NoTool}, outcome : {"ok"},
   pluginDirs : {<<>>},
   parts : UNION {[1..n ->
                    {<<NdLine("Hel"), "\n">>, <<NdLine("lo")>>, <<"\n">>,
                     <<"{\"message\":{\"con">>,
                     <<"tent\":\"Hel\"}}", "\n", NdLine("lo"), "\n">>,
                     <<"{\"message\":", "\n">>,
                     <<"null", "\n", "{\"done\":true}", "\n">>,
                     <<" ", "\n", NdLine(""), "\n", NdLine("lo"), "\n">>}]
                  : n \in 0..MaxParts}]

Responses == {PlainResponse, DefaultResponse} \cup RichResponses

UserMessages ==
  {<<"hi">>,
   <<"Delete", " ", "all", " ", "node_modules", " ", "folders">>}

\* the world: what the operation behind a tool call does
Environment(toolUse) ==
  IF toolUse.name = "read_file"
       /\ Prop(toolUse.parameters, "file_path") = JStr(PathMissing)
  THEN "fail" ELSE "ok"

(***************************************************************************)
(* The files of saved conversations, as Assistant.saveConversation writes  *)
(* and Assistant.loadConversation reads them.                              *)
(***************************************************************************)
\* tokens holding a character JSON.stringify writes as an escape sequence:
\* a line feed, a tab, a double quote or a backslash
NeedsEscape(tok) ==
  tok \in {"\n", "\t", "\n\n", "\\", "Tool results:\n",
           "' executed successfully:\n", "' failed:\n",
           J_ReadA, J_ReadMissing, J_Write, J_RmRf, J_Ls, J_Bad}

\* the string JSON.stringify writes for a text: a backslash goes before
\* what needs one
RECURSIVE JsonEscape(_)
JsonEscape(text) ==
  IF text = <<>> THEN <<>>
  ELSE (IF NeedsEscape(Head(text)) THEN <<"\\", Head(text)>>
        ELSE <<Head(text)>>) \o JsonEscape(Tail(text))

\* variant: the escape sequences are kept as they stand in the file
JsonUnescapeKept(text) == text

\* the text JSON.parse reads from such a string
RECURSIVE JsonUnescape(_)
JsonUnescape(text) ==
  IF text = <<>> THEN <<>>
  ELSE IF Head(text) = "\\" /\ Len(text) >= 2
  THEN <<text[2]>> \o JsonUnescape(SubSeq(text, 3, Len(text)))
  ELSE <<Head(text)>> \o JsonUnescape(Tail(text))

\* a file of the directory: what JSON.stringify(saveData, null, 2) wrote, or
\* what else lies there.  valid = FALSE: readFile throws, JSON.parse throws
\* on its content, or the content is the JSON value null and the read of
\* saveData.history throws
NoFile ==
  [exists |-> FALSE, valid |-> FALSE, timestamp |-> "", history |-> <<>>,
   toolUseCount |-> 0]

\* lines 350-356
SaveData(history, count) ==
  [exists |-> TRUE, valid |-> TRUE, timestamp |-> "now",
   history |-> [i \in 1..Len(history) |->
                  [role |-> history[i].role,
                   content |-> JsonEscape(history[i].content)]],
   toolUseCount |-> count]

\* lines 383-387: saveData.history and saveData.toolUseCount || 0
ParsedHistory(file) ==
  [i \in 1..Len(file.history) |->
     Message(file.history[i].role, JsonUnescape(file.history[i].content))]

\* the directory at start-up: nothing under "a", under "old" a file of valid
\* JSON that no saveConversation wrote (its history is the empty array),
\* under "broken" a file that is not JSON
ConversationsDir ==
  [name \in {"a", "old", "broken"} |->
     CASE name = "a" -> NoFile
       [] name = "old" ->
            [exists |-> TRUE, valid |-> TRUE, timestamp |-> "then",
             history |-> <<>>, toolUseCount |-> 0]
       [] OTHER ->
            [exists |-> TRUE, valid |-> FALSE, timestamp |-> "",
             history |-> <<>>, toolUseCount |-> 0]]

\* ToolSystem.page = null (tools.ts 21)
NoPage == "null"

NoSnapshot == [taken |-> FALSE, history |-> <<>>, toolUseCount |-> 0]

\* path.join(conversationsDir, `${name}.json`), as the key of the file: the
\* join normalizes the path, so a leading ./ is gone
PathOf(name) == IF name = "./a" THEN "a" ELSE name

\* two processes that save: what each is at, and under which name; order is
\* the rank at which its writeFile settled, 0 before
NoWriters ==
  [w \in {"here", "there"} |->
     [at |-> "idle", name |-> "", data |-> NoFile, order |-> 0]]

(***************************************************************************)
(* Assistant.create, and the first state of a session.                     *)
(***************************************************************************)
\* what the constructor and create leave, beside the configuration
Created ==
  /\ tools = getAvailableTools(InstalledPlugins)
  /\ conversationHistory = <<Message("system", SystemPrompt)>>
  /\ toolUseCount = 0
  /\ estimatedTokens = 0
  /\ pc = "idle"
  /\ callback = FALSE
  /\ iteration = 0
  /\ response = <<>>
  /\ toolUses = <<>>
  /\ toolIndex = 0
  /\ toolResults = <<>>
  /\ confirmState = "none"
  /\ chatKind = "none"
  /\ chatResult = <<>>
  /\ rich = 0
  /\ modelCalls = 0
  /\ allToolCalls = TRUE
  /\ historyAtStart = <<>>
  /\ files = ConversationsDir
  /\ saved = NoSnapshot
  /\ saves = 0
  /\ storeResult = "none"
  /\ stream = <<>>
  /\ chunks = <<>>
  /\ streams = 0
  /\ writers = NoWriters
  /\ browser = FALSE
  /\ page = NoPage

Init ==
  /\ entry \in {"cli", "api"}
  /\ userConfig \in UserConfigs
  /\ \E config \in AssistantConfigs :
       /\ entry = "cli" => config = RunChatConfig(userConfig)
       /\ entry = "api" => userConfig.has = {}
       /\ requireConfirmation = ConfigRequireConfirmation(config)
       /\ tokenLimit = ConfigTokenLimit(config)
  /\ Created
  /\ probe = NoProbe
  /\ probeResult = Pending

(***************************************************************************)
(* Assistant.chat, one action per stretch between two awaits.              *)
(***************************************************************************)
\* chat ends: kind is "answer", "warning", "modelError" or "typeError"
\* a TypeError leaves the batch as it was when it was thrown
ChatEnds(kind, result) ==
  /\ pc' = "idle"
  /\ chatKind' = kind
  /\ chatResult' = result
  /\ IF kind = "typeError"
     THEN UNCHANGED <<toolUses, toolIndex, toolResults, confirmState>>
     ELSE /\ toolUses' = <<>>
          /\ toolIndex' = 0
          /\ toolResults' = <<>>
          /\ confirmState' = "none"

\* variant: the oldest message after the system message is dropped at the
\* head of every iteration
LoopHeadDropsOldest(history) ==
  /\ conversationHistory' =
       (IF Len(history) >= 3
        THEN <<history[1]>> \o SubSeq(history, 3, Len(history))
        ELSE history)
  /\ IF iteration < maxIterations
     THEN /\ pc' = "model"
          /\ toolUses' = <<>>
          /\ toolIndex' = 0
          /\ toolResults' = <<>>
          /\ confirmState' = "none"
          /\ UNCHANGED <<chatKind, chatResult>>
     ELSE ChatEnds("answer", response)

\* variant: the ceiling is checked again at the head of every iteration
LoopHeadChecksLimit(history) ==
  /\ conversationHistory' = history
  /\ IF ~checkTokenLimit(tokenLimit, SumTokens(history))
     THEN ChatEnds("warning", TokenWarning(SumTokens(history), tokenLimit))
     ELSE IF iteration < maxIterations
     THEN /\ pc' = "model"
          /\ toolUses' = <<>>
          /\ toolIndex' = 0
          /\ toolResults' = <<>>
          /\ confirmState' = "none"
          /\ UNCHANGED <<chatKind, chatResult>>
     ELSE ChatEnds("answer", response)

\* the head of the while loop
LoopHead(history) ==
  /\ conversationHistory' = history
  /\ IF iteration < maxIterations
     THEN /\ pc' = "model"
          /\ toolUses' = <<>>
          /\ toolIndex' = 0
          /\ toolResults' = <<>>
          /\ confirmState' = "none"
          /\ UNCHANGED <<chatKind, chatResult>>
     ELSE ChatEnds("answer", response)

\* variant: the next input is read while the previous chat call runs
ChatStartOverlapping(userMessage, withCallback) ==
  /\ Len(conversationHistory) < MaxHistory
  /\ entry = "cli" => withCallback
  /\ LET history == Append(conversationHistory, Message("user", userMessage))
         estimated == SumTokens(history)
     IN /\ conversationHistory' = history
        /\ estimatedTokens' = estimated
        /\ historyAtStart' = conversationHistory
        /\ IF ~checkTokenLimit(tokenLimit, estimated)
           THEN ChatEnds("warning", TokenWarning(estimated, tokenLimit))
           ELSE /\ pc' = "model"
                /\ chatKind' = "running"
                /\ chatResult' = <<>>
                /\ toolUses' = <<>>
                /\ toolIndex' = 0
                /\ toolResults' = <<>>
                /\ confirmState' = "none"
  /\ callback' = withCallback
  /\ iteration' = 0
  /\ response' = <<>>
  /\ modelCalls' = 0
  /\ allToolCalls' = TRUE
  /\ storeResult' = "none"
  /\ UNCHANGED <<configVars, toolSystemVars, streamVars, storeVars, toolUseCount, rich>>

\* variant: a rejected call makes room, keeping the system message and its
\* own user message
ChatStartMakesRoom(userMessage, withCallback) ==
  /\ pc = "idle"
  /\ Len(conversationHistory) < MaxHistory
  /\ entry = "cli" => withCallback
  /\ LET history == Append(conversationHistory, Message("user", userMessage))
         estimated == SumTokens(history)
     IN /\ conversationHistory' =
             (IF ~checkTokenLimit(tokenLimit, estimated)
              THEN <<Head(history), Message("user", userMessage)>>
              ELSE history)
        /\ estimatedTokens' = estimated
        /\ historyAtStart' = conversationHistory
        /\ IF ~checkTokenLimit(tokenLimit, estimated)
           THEN ChatEnds("warning", TokenWarning(estimated, tokenLimit))
           ELSE /\ pc' = "model"
                /\ chatKind' = "running"
                /\ chatResult' = <<>>
                /\ toolUses' = <<>>
                /\ toolIndex' = 0
                /\ toolResults' = <<>>
                /\ confirmState' = "none"
  /\ callback' = withCallback
  /\ iteration' = 0
  /\ response' = <<>>
  /\ modelCalls' = 0
  /\ allToolCalls' = TRUE
  /\ storeResult' = "none"
  /\ UNCHANGED <<configVars, toolSystemVars, streamVars, storeVars, toolUseCount, rich>>

\* variant: the estimate is taken before the user message is pushed
ChatStartCountsBeforePush(userMessage, withCallback) ==
  /\ pc = "idle"
  /\ Len(conversationHistory) < MaxHistory
  /\ entry = "cli" => withCallback
  /\ LET history == Append(conversationHistory, Message("user", userMessage))
         estimated == SumTokens(conversationHistory)
     IN /\ conversationHistory' = history
        /\ estimatedTokens' = estimated
        /\ historyAtStart' = conversationHistory
        /\ IF ~checkTokenLimit(tokenLimit, estimated)
           THEN ChatEnds("warning", TokenWarning(estimated, tokenLimit))
           ELSE /\ pc' = "model"
                /\ chatKind' = "running"
                /\ chatResult' = <<>>
                /\ toolUses' = <<>>
                /\ toolIndex' = 0
                /\ toolResults' = <<>>
                /\ confirmState' = "none"
  /\ callback' = withCallback
  /\ iteration' = 0
  /\ response' = <<>>
  /\ modelCalls' = 0
  /\ allToolCalls' = TRUE
  /\ storeResult' = "none"
  /\ UNCHANGED <<configVars, toolSystemVars, streamVars, storeVars, toolUseCount, rich>>

\* lines 96-113: the user message, the token estimate, the pre-check
ChatStart(userMessage, withCallback) ==
  /\ pc = "idle"
  /\ Len(conversationHistory) < MaxHistory
  /\ entry = "cli" => withCallback
  /\ LET history == Append(conversationHistory, Message("user", userMessage))
         estimated == SumTokens(history)
     IN /\ conversationHistory' = history
        /\ estimatedTokens' = estimated
        /\ historyAtStart' = conversationHistory
        /\ IF ~checkTokenLimit(tokenLimit, estimated)
           THEN ChatEnds("warning", TokenWarning(estimated, tokenLimit))
           ELSE /\ pc' = "model"
                /\ chatKind' = "running"
                /\ chatResult' = <<>>
                /\ toolUses' = <<>>
                /\ toolIndex' = 0
                /\ toolResults' = <<>>
                /\ confirmState' = "none"
  /\ callback' = withCallback
  /\ iteration' = 0
  /\ response' = <<>>
  /\ modelCalls' = 0
  /\ allToolCalls' = TRUE
  /\ storeResult' = "none"
  /\ UNCHANGED <<configVars, toolSystemVars, streamVars, storeVars, toolUseCount, rich>>

\* variant: response is assigned in every iteration
ResponseAfterEveryIteration(before, aiResponse, uses) ==
  cleanResponse(aiResponse)

\* lines 143-147: response is assigned only when no tool use was found
ResponseAfter(before, aiResponse, uses) ==
  IF Len(uses) = 0 THEN cleanResponse(aiResponse) ELSE before

\* lines 115-147: the model answers aiResponse
ModelResponds(aiResponse) ==
  /\ pc = "model"
  /\ iteration < maxIterations
  /\ rich + (IF aiResponse \in RichResponses THEN 1 ELSE 0) <= MaxRich
  /\ rich' = rich + (IF aiResponse \in RichResponses THEN 1 ELSE 0)
  /\ iteration' = iteration + 1
  /\ modelCalls' = modelCalls + 1
  /\ conversationHistory' =
       Append(conversationHistory, Message("assistant", aiResponse))
  /\ LET uses == extractToolUses(aiResponse)
     IN /\ response' = ResponseAfter(response, aiResponse, uses)
        /\ IF Len(uses) = 0
           THEN /\ allToolCalls' = FALSE
                /\ ChatEnds("answer", response')
           ELSE /\ toolUses' = uses
                /\ toolIndex' = 1
                /\ toolResults' = <<>>
                /\ confirmState' = "none"
                /\ pc' = "gate"
                /\ UNCHANGED <<allToolCalls, chatKind, chatResult>>
  /\ UNCHANGED <<configVars, toolSystemVars, streamVars, storeVars, storeResult, toolUseCount, estimatedTokens, callback,
                 historyAtStart>>

\* variant: chat catches the failure and calls the model again
ModelFailsRetried ==
  /\ pc = "model"
  /\ iteration < maxIterations
  /\ iteration' = iteration + 1
  /\ modelCalls' = modelCalls + 1
  /\ chatKind' = "modelError"
  /\ UNCHANGED <<configVars, toolSystemVars, streamVars, storeVars, storeResult, conversationHistory, toolUseCount,
                 estimatedTokens, callback, response, rich,
                 allToolCalls, historyAtStart, pc, chatResult, toolUses,
                 toolIndex, toolResults, confirmState>>

\* lines 120-133: the model client throws; chat does not catch it
ModelFails ==
  /\ pc = "model"
  /\ iteration < maxIterations
  /\ iteration' = iteration + 1
  /\ modelCalls' = modelCalls + 1
  /\ ChatEnds("modelError", <<"Ollama API error">>)
  /\ UNCHANGED <<configVars, toolSystemVars, streamVars, storeVars, storeResult, conversationHistory, toolUseCount,
                 estimatedTokens, callback, response, rich,
                 allToolCalls, historyAtStart>>

\* toolResults.join('\n\n')
RECURSIVE Join(_)
Join(results) ==
  IF results = <<>> THEN <<>>
  ELSE IF Len(results) = 1 THEN Head(results)
  ELSE Head(results) \o <<"\n\n">> \o Join(Tail(results))

\* variant: the results are pushed as a message of the assistant
ToolResultsMessageAsAssistant(results) ==
  Message("assistant", <<"Tool results:\n">> \o Join(results))

ToolResultsMessage(results) ==
  Message("user", <<"Tool results:\n">> \o Join(results))

\* variant: the next invocation starts before the result is collected
BatchGoesOnEarly(result) ==
  IF toolIndex < Len(toolUses)
  THEN /\ toolIndex' = toolIndex + 1
       /\ confirmState' = "none"
       /\ pc' = "gate"
       /\ UNCHANGED <<conversationHistory, toolUses, toolResults, chatKind,
                      chatResult>>
  ELSE LoopHead(Append(conversationHistory,
                       ToolResultsMessage(Append(toolResults, result))))

\* lines 153-166: executeTool returned result; the next invocation, or the
\* tool results message and the head of the loop
BatchGoesOn(result) ==
  LET results == Append(toolResults, result)
  IN IF toolIndex < Len(toolUses)
     THEN /\ toolResults' = results
          /\ toolIndex' = toolIndex + 1
          /\ confirmState' = "none"
          /\ pc' = "gate"
          /\ UNCHANGED <<conversationHistory, toolUses, chatKind, chatResult>>
     ELSE LoopHead(Append(conversationHistory, ToolResultsMessage(results)))

NotFoundText(name) == <<"Error: Tool '", name, "' not found">>
CancelledText(name) == <<"Tool '", name, "' execution cancelled by user">>
SuccessText(name, output) ==
  <<"Tool '", name, "' executed successfully:\n", output>>
FailedText(name, error) == <<"Tool '", name, "' failed:\n", error>>
ErrorText(name, errorMsg) == <<"Tool '", name, "' error: ", errorMsg>>

\* variant: the lookup is taken to succeed
HasToolAlways(registry, name) == TRUE

HasTool(registry, name) == \E i \in 1..Len(registry) : registry[i].name = name

\* variant: the tool starts, the counter stays
StartExecuteUncounted ==
  /\ pc' = "exec"
  /\ UNCHANGED <<conversationHistory, toolUseCount, toolUses, toolIndex,
                 toolResults, chatKind, chatResult>>

\* lines 224-228: the tool starts
StartExecute ==
  /\ toolUseCount' = toolUseCount + 1
  /\ pc' = "exec"
  /\ UNCHANGED <<conversationHistory, toolUses, toolIndex, toolResults,
                 chatKind, chatResult>>

\* what executeTool does with a dangerous invocation, given its message
AskOrExecute(message) ==
  IF message.threw
  THEN /\ ChatEnds("typeError", <<"TypeError">>)
       /\ UNCHANGED <<conversationHistory, toolUseCount>>
  ELSE IF callback
  THEN /\ pc' = "confirm"
       /\ UNCHANGED <<conversationHistory, toolUseCount, toolUses, toolIndex,
                      toolResults, confirmState, chatKind, chatResult>>
  ELSE StartExecute /\ UNCHANGED confirmState

\* lines 204-226: executeTool up to its first await
ToolGate ==
  /\ pc = "gate"
  /\ LET toolUse == toolUses[toolIndex]
         dangerous ==
           isDangerousCommand(requireConfirmation, toolUse.name,
                              toolUse.parameters)
     IN IF ~HasTool(tools, toolUse.name)
        THEN BatchGoesOn(NotFoundText(toolUse.name)) /\ UNCHANGED toolUseCount
        ELSE IF dangerous.threw
        THEN /\ ChatEnds("typeError", <<"TypeError">>)
             /\ UNCHANGED <<conversationHistory, toolUseCount>>
        ELSE IF dangerous.value
        THEN AskOrExecute(getToolConfirmationMessage(toolUse.name,
                                                     toolUse.parameters))
        ELSE StartExecute /\ UNCHANGED confirmState
  /\ UNCHANGED <<configVars, toolSystemVars, streamVars, storeVars, storeResult, estimatedTokens, callback, iteration, response,
                 rich, modelCalls, allToolCalls, historyAtStart>>

\* lines 216-222: the confirmation callback answers
ConfirmAnswers(confirmed) ==
  /\ pc = "confirm"
  /\ IF confirmed
     THEN StartExecute /\ confirmState' = "approved"
     ELSE /\ BatchGoesOn(CancelledText(toolUses[toolIndex].name))
          /\ UNCHANGED toolUseCount
  /\ UNCHANGED <<configVars, toolSystemVars, streamVars, storeVars, storeResult, estimatedTokens, callback, iteration, response,
                 rich, modelCalls, allToolCalls, historyAtStart>>

\* lines 227-241: the text executeTool makes of what tool.execute settled to
ResultText(name, settled) ==
  IF settled.threw THEN ErrorText(name, settled.value.error)
  ELSE IF settled.value.success THEN SuccessText(name, settled.value.output)
  ELSE FailedText(name, settled.value.error)

\* lines 228-241: tool.execute settles
ToolSettles ==
  /\ pc = "exec"
  /\ LET toolUse == toolUses[toolIndex]
         tool == FindTool(tools, toolUse.name)
     IN BatchGoesOn(ResultText(toolUse.name,
          Execute(tool, toolUse.parameters, Environment(toolUse))))
  /\ UNCHANGED <<configVars, toolSystemVars, streamVars, storeVars, storeResult, toolUseCount, estimatedTokens, callback,
                 iteration, response, rich, modelCalls, allToolCalls,
                 historyAtStart>>

\* variant: the history is reset, the two counters are kept
ClearHistoryKeepsCounters ==
  /\ pc = "idle"
  /\ conversationHistory' = <<Message("system", SystemPrompt)>>
  /\ storeResult' = "none"
  /\ UNCHANGED <<configVars, toolSystemVars, streamVars, storeVars, toolUseCount, estimatedTokens, pc,
                 callback, iteration, response, toolUses,
                 toolIndex, toolResults, confirmState, chatKind, chatResult,
                 rich, modelCalls, allToolCalls, historyAtStart>>

\* lines 249-258
ClearHistory ==
  /\ pc = "idle"
  /\ conversationHistory' = <<Message("system", SystemPrompt)>>
  /\ toolUseCount' = 0
  /\ estimatedTokens' = 0
  /\ storeResult' = "none"
  /\ UNCHANGED <<configVars, toolSystemVars, streamVars, storeVars, pc, callback, iteration, response, toolUses,
                 toolIndex, toolResults, confirmState, chatKind, chatResult,
                 rich, modelCalls, allToolCalls, historyAtStart>>

\* index.ts 210-217: what runChat shows when chat settles
SessionOutput(kind, result) ==
  IF kind \in {"modelError", "typeError"} THEN <<"showError", result>>
  ELSE IF result # <<>> THEN <<"formatAssistantMessage", result>>
  ELSE <<"nothing", result>>

Next ==
  \/ \E userMessage \in UserMessages, withCallback \in BOOLEAN :
       ChatStart(userMessage, withCallback)
  \/ \E aiResponse \in Responses : ModelResponds(aiResponse)
  \/ ModelFails
  \/ ToolGate
  \/ \E confirmed \in BOOLEAN : ConfirmAnswers(confirmed)
  \/ ToolSettles
  \/ ClearHistory

Spec == Init /\ [][Next]_vars

(***************************************************************************)
(* The streaming branch of chat: lines 120-127, one action per await.      *)
(***************************************************************************)
\* what chatStream yields for a response, fragment after fragment: nothing;
\* prose around three blocks none of which is a call (parameters that are
\* not JSON, no name, no parameters); an answer in two fragments; prose and a call cut twice inside its block;
\* a dangerous call whole in the first fragment, prose, then a safe call
AllMalformed ==
  <<<<"Sure.", "\n">> \o Block("read_file", J_Bad),
    <<TU_OPEN, P_OPEN, J_ReadA, P_CLOSE, TU_CLOSE>>,
    <<TU_OPEN, "\n", TN_OPEN, "read_file", TN_CLOSE, "\n", TU_CLOSE,
      "\n", "Done.">>>>

Streams ==
  {<<>>, AllMalformed,
   <<<<" ", "All">>, <<" ", "done.", "\n">>>>,
   <<<<"Reading", " ", "the", " ", "file.", "\n",
       TU_OPEN, "\n", TN_OPEN, "read_file">>,
     <<TN_CLOSE, "\n", P_OPEN, "\n", J_ReadA>>,
     <<"\n", P_CLOSE, "\n", TU_CLOSE>>>>,
   <<Block("write_file", J_Write), <<"\n", "Then", " ", "reading.">>,
     Block("read_file", J_ReadA)>>}

\* lines 116-123: iteration++, the request is sent
StreamOpens(fragments) ==
  /\ pc = "model"
  /\ iteration < maxIterations
  /\ streams < MaxStreams
  /\ streams' = streams + 1
  /\ iteration' = iteration + 1
  /\ modelCalls' = modelCalls + 1
  /\ stream' = fragments
  /\ chunks' = <<>>
  /\ pc' = "stream"
  /\ UNCHANGED <<configVars, toolSystemVars, storeVars, storeResult, conversationHistory,
                 toolUseCount, estimatedTokens, callback, response, toolUses,
                 toolIndex, toolResults, confirmState, chatKind, chatResult,
                 rich, allToolCalls, historyAtStart>>

\* variant: the tool uses are parsed from what has arrived so far
StreamDeliversParsing ==
  /\ pc = "stream"
  /\ stream # <<>>
  /\ chunks' = Append(chunks, Head(stream))
  /\ stream' = Tail(stream)
  /\ toolUses' = extractToolUses(Flatten(chunks'))
  /\ UNCHANGED <<configVars, toolSystemVars, storeVars, storeResult, conversationHistory,
                 toolUseCount, estimatedTokens, pc, callback, iteration,
                 response, toolIndex, toolResults, confirmState,
                 chatKind, chatResult, rich, modelCalls, allToolCalls,
                 historyAtStart, streams>>

\* lines 123-126: aiResponse += chunk
StreamDelivers ==
  /\ pc = "stream"
  /\ stream # <<>>
  /\ chunks' = Append(chunks, Head(stream))
  /\ stream' = Tail(stream)
  /\ UNCHANGED <<configVars, toolSystemVars, storeVars, storeResult, conversationHistory,
                 toolUseCount, estimatedTokens, pc, callback, iteration,
                 response, toolUses, toolIndex, toolResults, confirmState,
                 chatKind, chatResult, rich, modelCalls, allToolCalls,
                 historyAtStart, streams>>

\* chatStream throws, at the request or between two fragments: chat does not
\* catch it
StreamBreaks ==
  /\ pc = "stream"
  /\ stream' = <<>>
  /\ chunks' = <<>>
  /\ ChatEnds("modelError", <<"Ollama API error">>)
  /\ UNCHANGED <<configVars, toolSystemVars, storeVars, storeResult, conversationHistory,
                 toolUseCount, estimatedTokens, callback, iteration, response,
                 rich, modelCalls, allToolCalls, historyAtStart, streams>>

\* lines 127-147: the transport closed; the assistant message, the tool uses
StreamCompletes ==
  /\ pc = "stream"
  /\ stream = <<>>
  /\ chunks' = <<>>
  /\ conversationHistory' =
       Append(conversationHistory, Message("assistant", Flatten(chunks)))
  /\ LET uses == extractToolUses(Flatten(chunks))
     IN /\ response' = ResponseAfter(response, Flatten(chunks), uses)
        /\ IF Len(uses) = 0
           THEN /\ allToolCalls' = FALSE
                /\ ChatEnds("answer", response')
           ELSE /\ toolUses' = uses
                /\ toolIndex' = 1
                /\ toolResults' = <<>>
                /\ confirmState' = "none"
                /\ pc' = "gate"
                /\ UNCHANGED <<allToolCalls, chatKind, chatResult>>
  /\ UNCHANGED <<configVars, toolSystemVars, storeVars, storeResult, toolUseCount,
                 estimatedTokens, callback, iteration, modelCalls, rich,
                 historyAtStart, stream, streams>>

\* sessions of an assistant that streams, with and without confirmation mode
StreamInit ==
  /\ entry = "api"
  /\ userConfig \in {c \in UserConfigs : c.has = {}}
  /\ requireConfirmation \in BOOLEAN
  /\ tokenLimit = 0
  /\ Created
  /\ probe = NoProbe
  /\ probeResult = Pending

StreamNext ==
  \/ \E withCallback \in BOOLEAN : ChatStart(<<"hi">>, withCallback)
  \/ \E fragments \in Streams : StreamOpens(fragments)
  \/ StreamDelivers
  \/ StreamBreaks
  \/ StreamCompletes
  \/ ToolGate
  \/ \E confirmed \in BOOLEAN : ConfirmAnswers(confirmed)
  \/ ToolSettles
  \/ ClearHistory

StreamSpec == StreamInit /\ [][StreamNext]_vars

(***************************************************************************)
(* The operations on saved conversations.                                  *)
(***************************************************************************)
\* lines 338-368; written = FALSE: mkdir or writeFile throws
saveConversation(name, written) ==
  /\ pc = "idle"
  /\ saves < MaxSaves
  /\ IF written
     THEN /\ saves' = saves + 1
          /\ files' = [files EXCEPT ![PathOf(name)] =
                         SaveData(conversationHistory, toolUseCount)]
          /\ saved' = [taken |-> TRUE, history |-> conversationHistory,
                       toolUseCount |-> toolUseCount]
          /\ storeResult' = "saved"
          /\ UNCHANGED writers
     ELSE /\ storeResult' = "saveFailed"
          /\ UNCHANGED storeVars
  /\ UNCHANGED <<configVars, toolSystemVars, streamVars, conversationHistory, toolUseCount,
                 estimatedTokens, pc, callback, iteration, response, toolUses,
                 toolIndex, toolResults, confirmState, chatKind, chatResult,
                 rich, modelCalls, allToolCalls, historyAtStart>>

\* variant: the history is emptied before the file is read
loadConversationEmptiesFirst(name) ==
  /\ pc = "idle"
  /\ LET file == IF name \in DOMAIN files THEN files[name] ELSE NoFile
     IN IF ~file.exists
        THEN /\ storeResult' = "notFound"
             /\ UNCHANGED <<conversationHistory, toolUseCount>>
        ELSE IF ~file.valid
        THEN /\ storeResult' = "loadFailed"
             /\ conversationHistory' = <<>>
             /\ toolUseCount' = 0
        ELSE /\ conversationHistory' = ParsedHistory(file)
             /\ toolUseCount' = file.toolUseCount
             /\ storeResult' = "loaded:" \o name
  /\ UNCHANGED <<configVars, toolSystemVars, streamVars, storeVars, estimatedTokens, pc, callback,
                 iteration, response, toolUses, toolIndex, toolResults,
                 confirmState, chatKind, chatResult, rich, modelCalls,
                 allToolCalls, historyAtStart>>

\* lines 370-399
loadConversation(name) ==
  /\ pc = "idle"
  /\ LET file == IF PathOf(name) \in DOMAIN files THEN files[PathOf(name)]
                 ELSE NoFile
     IN IF ~file.exists
        THEN /\ storeResult' = "notFound"
             /\ UNCHANGED <<conversationHistory, toolUseCount>>
        ELSE IF ~file.valid
        THEN /\ storeResult' = "loadFailed"
             /\ UNCHANGED <<conversationHistory, toolUseCount>>
        ELSE /\ conversationHistory' = ParsedHistory(file)
             /\ toolUseCount' = file.toolUseCount
             /\ storeResult' = "loaded:" \o name
  /\ UNCHANGED <<configVars, toolSystemVars, streamVars, storeVars, estimatedTokens, pc, callback,
                 iteration, response, toolUses, toolIndex, toolResults,
                 confirmState, chatKind, chatResult, rich, modelCalls,
                 allToolCalls, historyAtStart>>

\* a session of saves and loads between chats, without confirmation mode
\* and without a token ceiling, the model client never failing
StoreInit ==
  /\ entry = "cli"
  /\ userConfig \in {c \in UserConfigs : c.has = {}}
  /\ requireConfirmation = FALSE
  /\ tokenLimit = 0
  /\ Created
  /\ probe = NoProbe
  /\ probeResult = Pending

StoreNext ==
  \/ ChatStart(<<"hi">>, TRUE)
  \/ \E aiResponse \in {PlainResponse, DefaultResponse} :
       ModelResponds(aiResponse)
  \/ ToolGate
  \/ ToolSettles
  \/ ClearHistory
  \/ \E written \in BOOLEAN : saveConversation("a", written)
  \/ \E name \in {"a", "old", "broken", "none"} : loadConversation(name)

StoreSpec == StoreInit /\ [][StoreNext]_vars

(***************************************************************************)
(* fs.promises.writeFile of saveConversation (line 356), step by step, for *)
(* two processes on one conversations directory: the file is opened with   *)
(* flag w, which truncates it, the data are written from offset 0, the     *)
(* file is closed.  Nothing locks the file and nothing is renamed.         *)
(***************************************************************************)
SaveNames == {"a", "./a", "old"}

\* the size of a file, counted in messages
FileSize(file) == Len(file.history)

\* what the other process holds: a conversation of three messages
ThereData ==
  SaveData(<<Message("system", SystemPrompt), Message("user", <<"hi">>),
             Message("assistant", PlainResponse)>>, 2)

\* lines 350-356: saveData is built, the file is opened and truncated
WriterOpens(w, name) ==
  /\ pc = "idle"
  /\ writers[w].at = "idle"
  /\ writers[w].order = 0
  /\ writers' = [writers EXCEPT ![w] =
       [at |-> "open", name |-> name, order |-> 0,
        data |-> IF w = "here"
                 THEN SaveData(conversationHistory, toolUseCount)
                 ELSE ThereData]]
  /\ files' = [files EXCEPT ![PathOf(name)] =
       [exists |-> TRUE, valid |-> FALSE, timestamp |-> "",
        history |-> <<>>, toolUseCount |-> 0]]
  /\ UNCHANGED <<configVars, toolSystemVars, streamVars, saved, saves,
                 storeResult, conversationHistory, toolUseCount,
                 estimatedTokens, pc, callback, iteration, response, toolUses,
                 toolIndex, toolResults, confirmState, chatKind, chatResult,
                 rich, modelCalls, allToolCalls, historyAtStart>>

\* the data go over the head of what the file holds by now: when another
\* process wrote more in the meantime, its tail stays behind them and the
\* content is no JSON
WriterWrites(w) ==
  /\ writers[w].at = "open"
  /\ LET path == PathOf(writers[w].name)
     IN files' = [files EXCEPT ![path] =
          IF FileSize(files[path]) <= FileSize(writers[w].data)
          THEN writers[w].data
          ELSE [exists |-> TRUE, valid |-> FALSE, timestamp |-> "",
                history |-> files[path].history, toolUseCount |-> 0]]
  /\ writers' = [writers EXCEPT ![w].at = "written"]
  /\ UNCHANGED <<configVars, toolSystemVars, streamVars, saved, saves,
                 storeResult, conversationHistory, toolUseCount,
                 estimatedTokens, pc, callback, iteration, response, toolUses,
                 toolIndex, toolResults, confirmState, chatKind, chatResult,
                 rich, modelCalls, allToolCalls, historyAtStart>>

\* the file is closed and writeFile settles
WriterCloses(w) ==
  /\ writers[w].at = "written"
  /\ writers' = [writers EXCEPT ![w].at = "idle",
       ![w].order = 1 + Cardinality({v \in DOMAIN writers :
                                       writers[v].order > 0})]
  /\ UNCHANGED <<configVars, toolSystemVars, streamVars, files, saved, saves,
                 storeResult, conversationHistory, toolUseCount,
                 estimatedTokens, pc, callback, iteration, response, toolUses,
                 toolIndex, toolResults, confirmState, chatKind, chatResult,
                 rich, modelCalls, allToolCalls, historyAtStart>>

WritersNext ==
  \/ \E w \in DOMAIN NoWriters, name \in SaveNames : WriterOpens(w, name)
  \/ \E w \in DOMAIN NoWriters : WriterWrites(w)
  \/ \E w \in DOMAIN NoWriters : WriterCloses(w)
  \/ \E name \in SaveNames : loadConversation(name)

WritersSpec == StoreInit /\ [][WritersNext]_vars

(***************************************************************************)
(* The pure functions applied to the calls of GateCalls and ExecuteCalls.  *)
(***************************************************************************)
PureInit ==
  /\ entry = "api"
  /\ userConfig \in {c \in UserConfigs : c.has = {}}
  /\ requireConfirmation = FALSE
  /\ tokenLimit = 0
  /\ Created
  /\ probe \in GateCalls \cup ExecuteCalls \cup RegistryCalls \cup TextCalls
               \cup StreamCalls
  /\ probeResult = Pending

pureVars ==
  <<entry, userConfig, requireConfirmation, tokenLimit, tools,
    conversationHistory, toolUseCount, estimatedTokens, pc, callback,
    iteration, response, toolUses, toolIndex, toolResults, confirmState,
    chatKind, chatResult, rich, modelCalls, allToolCalls, historyAtStart,
    probe, files, saved, saves, storeResult, stream, chunks, streams,
    writers, browser, page>>

Settled(result) ==
  [done |-> TRUE, threw |-> result.threw, value |-> result.value]

CallGate ==
  /\ probe.fn = "isDangerousCommand"
  /\ ~probeResult.done
  /\ probeResult' =
       Settled(isDangerousCommand(probe.mode, probe.name, probe.params))
  /\ UNCHANGED pureVars

CallExecute ==
  /\ probe.fn = "execute"
  /\ ~probeResult.done
  /\ probeResult' = Settled(Execute(probe.tool, probe.params, probe.outcome))
  /\ UNCHANGED pureVars

\* the registry getAvailableTools builds, and what executeTool finds in it
CallFind ==
  /\ probe.fn = "find"
  /\ ~probeResult.done
  /\ LET registry == getAvailableTools(probe.pluginDirs)
     IN probeResult' =
          Settled(Returned([registry |-> registry,
                            tool |-> FindTool(registry, probe.name)]))
  /\ UNCHANGED pureVars

CallCleanResponse ==
  /\ probe.fn = "cleanResponse"
  /\ ~probeResult.done
  /\ probeResult' = Settled(Returned(cleanResponse(Flatten(probe.parts))))
  /\ UNCHANGED pureVars

CallExtractToolUses ==
  /\ probe.fn = "extractToolUses"
  /\ ~probeResult.done
  /\ probeResult' = Settled(Returned(extractToolUses(Flatten(probe.parts))))
  /\ UNCHANGED pureVars

CallChatStream ==
  /\ probe.fn = "chatStream"
  /\ ~probeResult.done
  /\ probeResult' = Settled(Returned(chatStream(probe.parts, <<>>)))
  /\ UNCHANGED pureVars

PureNext ==
  \/ CallGate
  \/ CallExecute
  \/ CallFind
  \/ CallCleanResponse
  \/ CallExtractToolUses
  \/ CallChatStream

PureSpec == PureInit /\ [][PureNext]_vars

(***************************************************************************)
(* The operations that read the assistant without changing it: getStats,   *)
(* getHistory, the two gate functions, listConversations and               *)
(* exportConversation, in sessions with chat, clearHistory and             *)
(* saveConversation.  probe names the last of them that was called,        *)
(* probeResult holds what it gave.                                         *)
(***************************************************************************)
\* lines 306-315
getStats(history, count, estimated, limit) ==
  [messageCount |->
     Cardinality({i \in 1..Len(history) : history[i].role # "system"}),
   toolUseCount |-> count,
   estimatedTokens |-> estimated,
   tokenLimit |-> limit]

\* variant: the array of the assistant itself is handed out
getHistoryShared(history) == [array |-> history, shared |-> TRUE]

\* lines 302-304: a new array holding the same messages
getHistory(history) == [array |-> history, shared |-> FALSE]

\* lines 401-415: the names of the files of the directory; the empty list
\* when there is no directory or readdir throws
listConversations(dir, fails) ==
  IF fails THEN {} ELSE {name \in DOMAIN dir : dir[name].exists}

\* escapeHtml(content).replace(/\n/g, '<br>'), token by token, for the tokens
\* the histories of these sessions hold; the others hold none of & < > " '
\* and no line feed
HtmlEscape(tok) ==
  CASE tok = "\n" -> "<br>"
    [] tok = TU_OPEN -> "&lt;tool_use&gt;"
    [] tok = TU_CLOSE -> "&lt;/tool_use&gt;"
    [] tok = TN_OPEN -> "&lt;tool_name&gt;"
    [] tok = TN_CLOSE -> "&lt;/tool_name&gt;"
    [] tok = P_OPEN -> "&lt;parameters&gt;"
    [] tok = P_CLOSE -> "&lt;/parameters&gt;"
    [] tok = J_ReadA -> "{&quot;file_path&quot;:&quot;a.txt&quot;}"
    [] tok = "Tool results:\n" -> "Tool results:<br>"
    [] tok = "Tool '" -> "Tool &#039;"
    [] tok = "' executed successfully:\n"
         -> "&#039; executed successfully:<br>"
    [] OTHER -> tok

\* the document exportToMarkdown (447-473) and exportToPDF (475-557) write:
\* the two counts and a section for every message that is not the system
\* message
ExportDocument(history, count, format) ==
  LET shown == SelectSeq(history, LAMBDA m : m.role # "system")
  IN [format |-> format,
      messages |-> Len(shown),
      toolUses |-> count,
      sections |->
        [i \in 1..Len(shown) |->
           [role |-> IF shown[i].role = "user" THEN "User" ELSE "Assistant",
            content |->
              IF format = "pdf"
              THEN [k \in 1..Len(shown[i].content) |->
                      HtmlEscape(shown[i].content[k])]
              ELSE shown[i].content]]]

\* lines 417-445; written = FALSE: mkdir or writeFile throws
exportConversation(history, count, format, written) ==
  IF ~written THEN [success |-> FALSE, message |-> "EACCES", file |-> <<>>]
  ELSE IF format \in {"markdown", "pdf"}
  THEN [success |-> TRUE, message |-> "Conversation exported",
        file |-> <<ExportDocument(history, count, format)>>]
  ELSE [success |-> FALSE, message |-> "Unsupported format", file |-> <<>>]

\* a call between two turns, the caller being done with the result of the
\* one before, that assigns nothing in the assistant
Reads(fn, result) ==
  /\ pc = "idle"
  /\ probe = NoProbe
  /\ probe' = [NoProbe EXCEPT !.fn = fn]
  /\ probeResult' = Settled(result)
  /\ UNCHANGED <<entry, userConfig, requireConfirmation, tokenLimit, tools,
                 toolSystemVars, streamVars, storeVars, storeResult,
                 conversationHistory, toolUseCount, estimatedTokens, pc,
                 callback, iteration, response, toolUses, toolIndex,
                 toolResults, confirmState, chatKind, chatResult, rich,
                 modelCalls, allToolCalls, historyAtStart>>

ReadsStats ==
  Reads("getStats",
        Returned(getStats(conversationHistory, toolUseCount, estimatedTokens,
                          tokenLimit)))

ReadsHistory == Reads("getHistory", Returned(getHistory(conversationHistory)))

\* the caller pushes a message on the array getHistory returned, or pops one
CallerChangesArray(push) ==
  /\ probe.fn = "getHistory"
  /\ LET array == probeResult.value.array
         changed == IF push THEN Append(array, Message("user", <<"x">>))
                    ELSE SubSeq(array, 1, Len(array) - 1)
     IN /\ IF push THEN Len(array) <= Len(conversationHistory)
                   ELSE Len(array) >= Len(conversationHistory) /\ array # <<>>
        /\ probeResult' =
             [probeResult EXCEPT !.value = [@ EXCEPT !.array = changed]]
        /\ conversationHistory' =
             (IF probeResult.value.shared THEN changed
              ELSE conversationHistory)
  /\ UNCHANGED <<entry, userConfig, requireConfirmation, tokenLimit, tools,
                 probe, toolSystemVars, streamVars, storeVars, storeResult,
                 toolUseCount, estimatedTokens, pc, callback, iteration,
                 response, toolUses, toolIndex, toolResults, confirmState,
                 chatKind, chatResult, rich, modelCalls, allToolCalls,
                 historyAtStart>>

ReadsGate(toolName, params) ==
  Reads("isDangerousCommand",
        isDangerousCommand(requireConfirmation, toolName, params))

ReadsConfirmationMessage(toolName, params) ==
  Reads("getToolConfirmationMessage",
        getToolConfirmationMessage(toolName, params))

ListsConversations(fails) ==
  Reads("listConversations", Returned(listConversations(files, fails)))

ExportsConversation(format, written) ==
  Reads("exportConversation",
        Returned(exportConversation(conversationHistory, toolUseCount,
                                    format, written)))

\* the caller is done with what the last call gave
ResultDropped ==
  /\ probe # NoProbe
  /\ probe' = NoProbe
  /\ probeResult' = Pending
  /\ UNCHANGED <<entry, userConfig, requireConfirmation, tokenLimit, tools,
                 toolSystemVars, streamVars, storeVars, storeResult,
                 conversationHistory, toolUseCount, estimatedTokens, pc,
                 callback, iteration, response, toolUses, toolIndex,
                 toolResults, confirmState, chatKind, chatResult, rich,
                 modelCalls, allToolCalls, historyAtStart>>

\* what the gate functions are asked about
ReaderTools == {"read_file", "write_file", "execute_command"}
ReaderParams == {JNull, JsonLiteral(J_RmRf).value, JsonLiteral(J_Write).value}

\* an assistant made through the API, with and without confirmation mode
ReadersInit ==
  /\ entry = "api"
  /\ userConfig \in {c \in UserConfigs : c.has = {}}
  /\ requireConfirmation \in BOOLEAN
  /\ tokenLimit = 0
  /\ Created
  /\ probe = NoProbe
  /\ probeResult = Pending

\* the session goes on with chat, clearHistory or saveConversation once the
\* caller is done with the result of the last reading call
ReadersNext ==
  \/ probe = NoProbe /\ ChatStart(<<"hi">>, FALSE)
  \/ \E aiResponse \in {PlainResponse, DefaultResponse} :
       ModelResponds(aiResponse)
  \/ ToolGate
  \/ ToolSettles
  \/ probe = NoProbe /\ ClearHistory
  \/ probe = NoProbe /\ \E written \in BOOLEAN : saveConversation("a", written)
  \/ ResultDropped
  \/ ReadsStats
  \/ ReadsHistory
  \/ \E push \in BOOLEAN : CallerChangesArray(push)
  \/ \E toolName \in ReaderTools, params \in ReaderParams :
       ReadsGate(toolName, params)
  \/ \E toolName \in ReaderTools, params \in ReaderParams :
       ReadsConfirmationMessage(toolName, params)
  \/ \E fails \in BOOLEAN : ListsConversations(fails)
  \/ \E format \in {"markdown", "pdf", "docx"}, written \in BOOLEAN :
       ExportsConversation(format, written)

ReadersSpec == ReadersInit /\ [][ReadersNext]_vars

(***************************************************************************)
(* The browser of ToolSystem (tools.ts 523-761): the two handles, and the  *)
(* calls of the browser tools one after another, each with the outcomes    *)
(* the browser can give it.                                                *)
(***************************************************************************)
\* where a new page is, and where browser_navigate is sent
BlankPage == "about:blank"
Urls ==
  {"https://a.example", "https://a.example/next", "https://b.example",
   "file:///c.html"}

\* the tools that work on the page (lines 570-736)
PageOperations ==
  {"browser_get_content", "browser_get_text", "browser_screenshot",
   "browser_click", "browser_type", "browser_wait_for_selector",
   "browser_evaluate"}

NotLaunched == "Browser not launched. Use browser_launch first."

Handles(b, p, result) == [browser |-> b, page |-> p, result |-> result]

\* lines 523-545.  launches: chromium.launch resolves; opens: newPage
\* resolves.  The browser handle is assigned before newPage is awaited
browserLaunch(b, p, headless, launches, opens) ==
  IF b THEN Handles(b, p, Success("Browser already launched"))
  ELSE IF ~launches THEN Handles(b, p, Failure("Failed to launch browser"))
  ELSE IF ~opens THEN Handles(TRUE, p, Failure("Target closed"))
  ELSE Handles(TRUE, BlankPage,
               Success("Browser launched in "
                         \o (IF headless THEN "headless" ELSE "headed")
                         \o " mode"))

\* lines 547-568.  loads: goto resolves.  this.page!.goto on null is a
\* TypeError the catch turns into a failure
browserNavigate(b, p, url, launches, opens, loads) ==
  LET launched == IF ~b \/ p = NoPage
                  THEN browserLaunch(b, p, FALSE, launches, opens)
                  ELSE Handles(b, p, Success(""))
  IN IF ~launched.result.success THEN launched
     ELSE IF launched.page = NoPage
     THEN Handles(launched.browser, launched.page,
                  Failure("Cannot read properties of null (reading 'goto')"))
     ELSE IF ~loads
     THEN Handles(launched.browser, launched.page, Failure("Timeout"))
     ELSE Handles(launched.browser, url, Success("Navigated to: " \o url))

\* lines 570-736, the same shape seven times; works: the call on the page
\* resolves
pageOperation(b, p, op, works) ==
  IF p = NoPage THEN Handles(b, p, Failure(NotLaunched))
  ELSE IF works THEN Handles(b, p, Success(op \o " at " \o p))
  ELSE Handles(b, p, Failure("Timeout"))

\* lines 738-761.  closes: browser.close resolves
browserClose(b, p, closes) ==
  IF ~b THEN Handles(b, p, Success("Browser already closed"))
  ELSE IF ~closes THEN Handles(b, p, Failure("Failed to close browser"))
  ELSE Handles(FALSE, NoPage, Success("Browser closed"))

\* a call of a browser tool: the handles after it, and its ToolResult
BrowserCall(fn, after) ==
  /\ browser' = after.browser
  /\ page' = after.page
  /\ probe' = [NoProbe EXCEPT !.fn = fn]
  /\ probeResult' = Settled(Returned(after.result))
  /\ UNCHANGED <<entry, userConfig, requireConfirmation, tokenLimit, tools,
                 streamVars, storeVars, storeResult, conversationHistory,
                 toolUseCount, estimatedTokens, pc, callback, iteration,
                 response, toolUses, toolIndex, toolResults, confirmState,
                 chatKind, chatResult, rich, modelCalls, allToolCalls,
                 historyAtStart>>

\* a ToolSystem as the constructor leaves it: no browser, no page
BrowserInit ==
  /\ entry = "api"
  /\ userConfig \in {c \in UserConfigs : c.has = {}}
  /\ requireConfirmation = FALSE
  /\ tokenLimit = 0
  /\ Created
  /\ probe = NoProbe
  /\ probeResult = Pending

BrowserNext ==
  \/ \E headless \in BOOLEAN, launches \in BOOLEAN, opens \in BOOLEAN :
       BrowserCall("browser_launch",
                   browserLaunch(browser, page, headless, launches, opens))
  \/ \E url \in Urls, launches \in BOOLEAN, opens \in BOOLEAN,
        loads \in BOOLEAN :
       BrowserCall("browser_navigate",
                   browserNavigate(browser, page, url, launches, opens,
                                   loads))
  \/ \E op \in PageOperations, works \in BOOLEAN :
       BrowserCall(op, pageOperation(browser, page, op, works))
  \/ \E closes \in BOOLEAN :
       BrowserCall("browser_close", browserClose(browser, page, closes))

BrowserSpec == BrowserInit /\ [][BrowserNext]_vars

(***************************************************************************)
(* Properties.                                                             *)
(***************************************************************************)
\* the invocation executeTool works on
CurrentToolUse == toolUses[toolIndex]

\* the history still shows the chat call that began last
ChatVisible ==
  chatKind # "none" /\ Len(conversationHistory) > Len(historyAtStart)

\* the history as that call left it before its pre-check
StartedHistory == SubSeq(conversationHistory, 1, Len(historyAtStart) + 1)

\* the call ended at the iteration ceiling
CeilingExit ==
  pc = "idle" /\ chatKind = "answer" /\ allToolCalls /\ ChatVisible

\* the text of the last model response of a call that ended at the ceiling
LastModelText == conversationHistory[Len(conversationHistory) - 1].content

IsCancelled(result) == result = CancelledText(result[2])
IsError(result) == result[1] = "Tool '" /\ result[3] = "' error: "
HasCancelled == \E i \in 1..Len(toolResults) : IsCancelled(toolResults[i])
HasError == \E i \in 1..Len(toolResults) : IsError(toolResults[i])

\* the gate would classify the current invocation as dangerous with
\* confirmation mode on
CurrentIsDangerous ==
  isDangerousCommand(TRUE, CurrentToolUse.name,
                     CurrentToolUse.parameters).value

\* C1: a chat call makes at most 5 model calls, and a call whose model
\* responses all held a valid tool-call block returns, after exactly 5 of
\* them (the model client never failing).
C1_ReturnsAfterFiveModelCalls ==
  /\ modelCalls <= maxIterations
  /\ (pc = "idle" /\ chatKind \in {"answer", "typeError"} /\ allToolCalls)
       => (chatKind = "answer" /\ modelCalls = maxIterations)

\* C2 as stated: a call that ends at the iteration ceiling returns the last
\* model text with its tool-call blocks stripped.
C2_CeilingReturnsLastStrippedText ==
  CeilingExit => chatResult = cleanResponse(LastModelText)

\* C2 as amended: a call that ends at the iteration ceiling returns the
\* empty text, whatever the last model text was.
C2_CeilingReturnsEmpty ==
  CeilingExit => (modelCalls = maxIterations /\ chatResult = <<>>)

C2_CeilingWithProse ==
  CeilingExit /\ cleanResponse(LastModelText) # <<>>

\* C3: with confirmation mode on, a tool runs for a dangerous invocation
\* only after a confirmation was asked for it and answered yes, with or
\* without a callback passed to chat.
C3_DangerousRunsOnlyApproved ==
  (pc = "exec" /\ requireConfirmation /\ CurrentIsDangerous)
    => confirmState = "approved"

\* C4: in the interactive session of a user whose configuration sets
\* requireConfirmation, a dangerous invocation is prompted for and approved
\* before its tool runs.
C4_SessionPromptsBeforeDangerousTool ==
  (entry = "cli" /\ ConfigRequireConfirmation(userConfig) /\ pc = "exec"
     /\ CurrentIsDangerous)
    => confirmState = "approved"

\* C5: a denied invocation does not run its tool and gives the cancelled
\* text, and the batch it belongs to is carried to its end: the call never
\* ends on an exception with that batch unfinished.
C5_DenialDoesNotAbortTheTurn ==
  [][/\ (pc = "confirm" /\ pc' # "exec") =>
          /\ toolUseCount' = toolUseCount
          /\ \/ toolResults' =
                  Append(toolResults, CancelledText(CurrentToolUse.name))
             \/ conversationHistory' =
                  Append(conversationHistory,
                         ToolResultsMessage(
                           Append(toolResults,
                                  CancelledText(CurrentToolUse.name))))
     /\ (pc # "idle" /\ pc' = "idle" /\ HasCancelled) => chatKind' = "answer"
    ]_vars

\* the command string of an argument bag, empty when it has none
CommandOf(params) ==
  IF params.type = "object" /\ Prop(params, "command").type = "string"
  THEN Prop(params, "command").chars ELSE <<>>

\* the classification C6 describes
isDangerousReference(mode, name, params) ==
  /\ mode
  /\ name \in {"execute_command", "write_file", "edit_file", "git_commit"}
  /\ name = "execute_command" => CommandOf(params) \in RiskyCommands

\* C6: isDangerousCommand returns, for every name and argument bag, what
\* the reference classification gives.
C6_GateEqualsReference ==
  (probe.fn = "isDangerousCommand" /\ probeResult.done) =>
    /\ ~probeResult.threw
    /\ probeResult.value =
         isDangerousReference(probe.mode, probe.name, probe.params)

\* C7: when a token ceiling is set and the estimate over the history with
\* the new user message reaches it, chat returns the warning, makes no model
\* call and leaves the history longer by that user message alone.
C7_TokenPreCheckRejects ==
  (ChatVisible /\ tokenLimit # 0 /\ SumTokens(StartedHistory) >= tokenLimit)
    => /\ pc = "idle"
       /\ chatKind = "warning"
       /\ chatResult = TokenWarning(SumTokens(StartedHistory), tokenLimit)
       /\ modelCalls = 0
       /\ Len(conversationHistory) = Len(historyAtStart) + 1
       /\ SubSeq(conversationHistory, 1, Len(historyAtStart)) = historyAtStart
       /\ conversationHistory[Len(conversationHistory)].role = "user"

C7_RejectedAtTheLimit ==
  /\ pc = "idle"
  /\ chatKind = "warning"
  /\ ChatVisible
  /\ SumTokens(StartedHistory) = tokenLimit
  /\ Len(conversationHistory) = Len(historyAtStart) + 1

\* C8: in the interactive session of a user whose configuration sets
\* tokenLimit, a message that brings the estimate to the limit is answered
\* with the warning and no model call.
C8_SessionHonoursTokenLimit ==
  (entry = "cli" /\ ConfigTokenLimit(userConfig) # 0 /\ ChatVisible
     /\ SumTokens(StartedHistory) >= ConfigTokenLimit(userConfig))
    => (chatKind = "warning" /\ modelCalls = 0)

\* C9: when tool.execute throws, the invocation gives the error text, and
\* the batch it belongs to is carried to its end with that text in the tool
\* results message: the call never ends on an exception with that batch
\* unfinished.
C9_ThrowingToolDoesNotAbortTheTurn ==
  [][/\ (pc = "exec"
           /\ Execute(FindTool(tools, CurrentToolUse.name),
                      CurrentToolUse.parameters,
                      Environment(CurrentToolUse)).threw) =>
          LET text == ErrorText(CurrentToolUse.name,
                                "Cannot read properties of null")
          IN \/ toolResults' = Append(toolResults, text) /\ pc' = "gate"
             \/ conversationHistory' =
                  Append(conversationHistory,
                         ToolResultsMessage(Append(toolResults, text)))
     /\ (pc # "idle" /\ pc' = "idle" /\ HasError) => chatKind' = "answer"
    ]_vars

\* C10: the execute of every built-in tool returns a Tool Result for every
\* argument bag; it never throws.
C10_BuiltInExecuteNeverThrows ==
  (probe.fn = "execute" /\ ~probe.tool.plugin /\ probeResult.done)
    => ~probeResult.threw

\* C11: a failure of the model client ends the chat call with that error:
\* nothing is appended to the history and the call is not tried again; the
\* interactive session shows the error and reads on, and the next chat on
\* the same assistant starts as any chat does.
C11_ModelFailurePropagates ==
  [][/\ (pc = "model" /\ chatKind' = "modelError") =>
          /\ pc' = "idle"
          /\ conversationHistory' = conversationHistory
          /\ modelCalls' = modelCalls + 1
          /\ chatResult' = <<"Ollama API error">>
          /\ entry = "cli" =>
               SessionOutput(chatKind', chatResult')[1] = "showError"
     /\ (chatKind = "modelError" /\ pc' = "model") =>
          /\ pc = "idle"
          /\ \E userMessage \in UserMessages :
               conversationHistory' =
                 Append(conversationHistory, Message("user", userMessage))
          /\ chatKind' = "running"
          /\ modelCalls' = 0
          /\ iteration' = 0
    ]_vars

C11_AnsweredAfterAFailure ==
  /\ tokenLimit = 0
  /\ pc = "idle"
  /\ chatKind = "answer"
  /\ Len(historyAtStart) >= 2
  /\ historyAtStart[Len(historyAtStart)].role = "user"
  /\ historyAtStart[Len(historyAtStart)].content \in UserMessages

\* the last operation was a load that succeeded
LoadSucceeded == storeResult \in {"loaded:a", "loaded:old"}

\* C12: a successful load of a name that was saved by this session, with no
\* other write to it since, leaves the message sequence and the tool-use
\* counter the assistant held at that save, whatever ran in between.
C12_LoadRestoresWhatWasSaved ==
  (storeResult = "loaded:a" /\ saved.taken) =>
    /\ conversationHistory = saved.history
    /\ toolUseCount = saved.toolUseCount

C12_RestoredAfterAClear ==
  /\ storeResult = "loaded:a"
  /\ saved.taken
  /\ estimatedTokens = 0
  /\ toolUseCount > 0
  /\ Len(conversationHistory) > 3
  /\ \E i \in 1..Len(conversationHistory) :
       JsonEscape(conversationHistory[i].content)
         # conversationHistory[i].content

\* C13: after a successful load the estimated-token counter equals the
\* estimate recomputed from the restored history.
C13_EstimateRecomputedOnLoad ==
  LoadSucceeded => estimatedTokens = SumTokens(conversationHistory)

\* C16: the history is never empty and its first message has role system,
\* in every state create, chat, clearHistory and loadConversation lead to;
\* no step of chat changes that first message.
C16_FirstMessageIsSystem ==
  [][/\ Len(conversationHistory') >= 1
     /\ conversationHistory'[1].role = "system"
     /\ ((pc # "idle" \/ pc' # "idle") /\ Len(conversationHistory) >= 1) =>
          conversationHistory'[1] = conversationHistory[1]
    ]_vars

\* the positions of the probed name in the registry the call built
ProbedPositions ==
  {i \in 1..Len(probeResult.value.registry) :
     probeResult.value.registry[i].name = probe.name}

FindSettled == probe.fn = "find" /\ probeResult.done

C15_RegistryNamesUnique ==
  FindSettled =>
    \A i, j \in 1..Len(probeResult.value.registry) :
      probeResult.value.registry[i].name = probeResult.value.registry[j].name
        => i = j

\* the first model response of the chat call that began last
FirstReply == conversationHistory[Len(historyAtStart) + 2]

\* the text holds no opening delimiter that a closing delimiter follows
NoBlock(text) ==
  LET o == IndexFrom(text, TU_OPEN, 1)
  IN o = 0 \/ IndexFrom(text, TU_CLOSE, o + 1) = 0

\* the model has answered the call that began last, without a block
AnsweredWithoutBlock ==
  /\ ChatVisible
  /\ chatKind # "warning"
  /\ Len(conversationHistory) >= Len(historyAtStart) + 2
  /\ FirstReply.role = "assistant"
  /\ NoBlock(FirstReply.content)

\* C17: when the model answers a chat call with a response holding no
\* tool-call block, the call makes that one model call and returns the
\* response trimmed; the history has grown by the user message and that
\* assistant message, nothing else.
C17_PlainAnswerEndsTheCall ==
  AnsweredWithoutBlock =>
    /\ pc = "idle"
    /\ chatKind = "answer"
    /\ modelCalls = 1
    /\ chatResult = Trim(FirstReply.content)
    /\ Len(conversationHistory) = Len(historyAtStart) + 2
    /\ SubSeq(conversationHistory, 1, Len(historyAtStart)) = historyAtStart
    /\ conversationHistory[Len(historyAtStart) + 1].role = "user"
    /\ conversationHistory[Len(historyAtStart) + 1].content \in UserMessages

C17_PaddedAnswerReturned ==
  /\ AnsweredWithoutBlock
  /\ pc = "idle"
  /\ chatResult # FirstReply.content
  /\ chatResult # <<>>

\* a part is a block when it opens with the block delimiter
IsBlock(part) == part # <<>> /\ part[1] = TU_OPEN

\* the prose of a text: its parts that are no blocks, in order
RECURSIVE ProseOf(_)
ProseOf(parts) ==
  IF parts = <<>> THEN <<>>
  ELSE (IF IsBlock(Head(parts)) THEN <<>> ELSE Head(parts))
         \o ProseOf(Tail(parts))

Delimiters == {TU_OPEN, TU_CLOSE, TN_OPEN, TN_CLOSE, P_OPEN, P_CLOSE}

CleanSettled == probe.fn = "cleanResponse" /\ probeResult.done

\* C18 as stated: stripping a text made of blocks and prose gives exactly
\* the prose.
C18_StripGivesExactlyTheProse ==
  CleanSettled => probeResult.value = ProseOf(probe.parts)

\* C18 as amended: stripping a text made of blocks and prose gives the prose
\* without the whitespace at its two ends, whatever the number of blocks and
\* whether or not they are well-formed; no delimiter remains.
C18_StripGivesTheProseTrimmed ==
  CleanSettled =>
    /\ probeResult.value = Trim(ProseOf(probe.parts))
    /\ \A i \in 1..Len(probeResult.value) :
         probeResult.value[i] \notin Delimiters

C18_BlocksAroundPaddedProse ==
  /\ CleanSettled
  /\ Len(probe.parts) = 3
  /\ IsBlock(probe.parts[1])
  /\ ~IsBlock(probe.parts[2])
  /\ IsBlock(probe.parts[3])
  /\ probe.parts[1] # probe.parts[3]
  /\ probeResult.value # <<>>
  /\ probeResult.value # probe.parts[2]

\* the invocation a part stands for, read off the part by hand: none for
\* prose and for a block without name, without parameters or with parameters
\* that are not JSON
ExpectedUse(part) ==
  LET Use(name, parameters) == <<[name |-> name, parameters |-> parameters]>>
  IN CASE part = Block("read_file", J_ReadA) ->
            Use("read_file", JObj(<<<<"file_path", JStr(PathA)>>>>))
       [] part = Block("read_file", J_ReadMissing) ->
            Use("read_file", JObj(<<<<"file_path", JStr(PathMissing)>>>>))
       [] part = <<TU_OPEN, TN_OPEN, " ", "read_file", " ", TN_CLOSE,
                   P_OPEN, J_ReadMissing, P_CLOSE, TU_CLOSE>> ->
            Use("read_file", JObj(<<<<"file_path", JStr(PathMissing)>>>>))
       [] part = Block("execute_command", J_Ls) ->
            Use("execute_command", JObj(<<<<"command", JStr(CmdLs)>>>>))
       [] part = Block("run_shell", J_RmRf) ->
            Use("run_shell", JObj(<<<<"command", JStr(CmdRmRf)>>>>))
       [] part = Block("read_file", J_Null) -> Use("read_file", JNull)
       [] part = Block("execute_command", J_Null) ->
            Use("execute_command", JNull)
       [] OTHER -> <<>>

RECURSIVE ExpectedUses(_)
ExpectedUses(parts) ==
  IF parts = <<>> THEN <<>>
  ELSE ExpectedUse(Head(parts)) \o ExpectedUses(Tail(parts))

\* parsing alone: the invocations of a text are those of its well-formed
\* blocks, in order
ParsedAsExpected ==
  (probe.fn = "extractToolUses" /\ probeResult.done)
    => probeResult.value = ExpectedUses(probe.parts)

ParsedAroundMalformed ==
  /\ probe.fn = "extractToolUses"
  /\ probeResult.done
  /\ Len(probe.parts) = 3
  /\ ExpectedUse(probe.parts[1]) # <<>>
  /\ IsBlock(probe.parts[2])
  /\ ExpectedUse(probe.parts[2]) = <<>>
  /\ ExpectedUse(probe.parts[3]) # <<>>

InBatch(at) == at \in {"gate", "confirm", "exec"}

\* the turn is working on the response with malformed blocks
OnMalformed ==
  /\ InBatch(pc)
  /\ conversationHistory[Len(conversationHistory)] =
       Message("assistant", Flatten(MalformedParts))

\* C19: a malformed block is dropped silently: the invocations of the
\* response are those of its well-formed blocks, and when the batch of that
\* response ends every one of them went through executeTool and has its
\* entry in the tool results message, the malformed blocks have none.
C19_MalformedBlockIsDroppedSilently ==
  [][/\ (pc = "model" /\ conversationHistory' =
           Append(conversationHistory,
                  Message("assistant", Flatten(MalformedParts))))
          => toolUses' = ExpectedUses(MalformedParts)
     /\ (OnMalformed /\ ~InBatch(pc'))
          => /\ chatKind' # "typeError"
             /\ Len(toolResults) + 1 = Len(ExpectedUses(MalformedParts))
             /\ Len(conversationHistory') = Len(conversationHistory) + 1]_vars

\* the same, where the failure of the gate is let through
C19_ExceptGateFailure ==
  [][/\ (pc = "model" /\ conversationHistory' =
           Append(conversationHistory,
                  Message("assistant", Flatten(MalformedParts))))
          => toolUses' = ExpectedUses(MalformedParts)
     /\ (OnMalformed /\ ~InBatch(pc') /\ chatKind' # "typeError")
          => /\ Len(toolResults) + 1 = Len(ExpectedUses(MalformedParts))
             /\ Len(conversationHistory') = Len(conversationHistory) + 1]_vars

\* a result text of executeTool names the tool it is about
ResultNames(text, name) ==
  /\ Len(text) >= 3
  /\ text[1] \in {"Tool '", "Error: Tool '"}
  /\ text[2] = name
  /\ \A k \in 1..Len(text) : text[k] # "\n\n"

\* what the tool results message of a batch starts with, once all results
\* but the last are in
BatchPrefix ==
  <<"Tool results:\n">> \o Join(toolResults)
    \o (IF toolResults = <<>> THEN <<>> ELSE <<"\n\n">>)

\* the step that ends a batch appends last as its tool results message
AppendsToolResults(last) ==
  /\ last.role = "user"
  /\ Len(toolResults) + 1 = Len(toolUses)
  /\ \A i \in 1..Len(toolResults) :
       ResultNames(toolResults[i], toolUses[i].name)
  /\ Len(last.content) > Len(BatchPrefix)
  /\ SubSeq(last.content, 1, Len(BatchPrefix)) = BatchPrefix
  /\ ResultNames(SubSeq(last.content, Len(BatchPrefix) + 1,
                        Len(last.content)),
                 toolUses[Len(toolUses)].name)

\* C20: each iteration that found tool calls appends exactly one message with
\* role user whose content starts with 'Tool results:' and holds one result
\* per parsed invocation, in the order of the blocks, joined by blank lines;
\* two blocks naming the same tool give two results.
C20_OneToolResultsMessagePerIteration ==
  [][(InBatch(pc) /\ ~InBatch(pc'))
       => /\ conversationHistory' =
               Append(conversationHistory,
                      conversationHistory'[Len(conversationHistory')])
          /\ AppendsToolResults(
               conversationHistory'[Len(conversationHistory')])]_vars

\* the same, where the failure of the gate is let through
C20_ExceptGateFailure ==
  [][(InBatch(pc) /\ ~InBatch(pc') /\ chatKind' # "typeError")
       => /\ conversationHistory' =
               Append(conversationHistory,
                      conversationHistory'[Len(conversationHistory')])
          /\ AppendsToolResults(
               conversationHistory'[Len(conversationHistory')])]_vars

\* a batch of three ended with its message: two results name the same tool
C20_SameToolTwiceInOneBatch ==
  /\ pc = "model"
  /\ Len(conversationHistory) >= 2
  /\ conversationHistory[Len(conversationHistory) - 1] =
       Message("assistant", Flatten(MalformedParts))
  /\ conversationHistory[Len(conversationHistory)].role = "user"

\* C21: within one batch the invocations run one after another in source
\* order: while executeTool works on invocation k (gate, confirmation or
\* execution) the results of invocations 1..k-1, and only those, are in, each
\* naming its invocation; no later invocation has started.
C21_BatchRunsOneAfterAnother ==
  InBatch(pc) =>
    /\ toolIndex \in 1..Len(toolUses)
    /\ Len(toolResults) = toolIndex - 1
    /\ \A i \in 1..Len(toolResults) :
         ResultNames(toolResults[i], toolUses[i].name)

C21_SecondInvocationExecuting ==
  /\ pc = "exec"
  /\ toolIndex = 2
  /\ Len(toolUses) >= 3
  /\ Len(toolResults) = 1

Cleared ==
  /\ conversationHistory = <<Message("system", SystemPrompt)>>
  /\ toolUseCount = 0
  /\ estimatedTokens = 0

\* C23: after clearHistory, from any state, the history is exactly the single
\* system message holding the system prompt and the two counters are 0;
\* clearHistory on a cleared assistant changes nothing.
C23_ClearResetsHistoryAndCounters ==
  [][ClearHistory
       => /\ Cleared'
          /\ Cleared => UNCHANGED <<conversationHistory, toolUseCount,
                                    estimatedTokens>>]_vars

C23_ClearedAfterAToolTurn ==
  /\ Cleared
  /\ pc = "idle"
  /\ chatKind = "answer"
  /\ modelCalls >= 2
  /\ storeResult = "none"

\* C24: a load that fails (no entry of that name, or an entry that cannot be
\* read or parsed) gives a failure outcome and leaves the history and the
\* tool-use counter as they were; a load that succeeds replaces both by what
\* the entry holds, whatever they were.
C24_FailedLoadChangesNothing ==
  [][\A name \in {"a", "old", "broken", "none"} :
       loadConversation(name)
         => LET present == name \in DOMAIN files /\ files[name].exists
            IN /\ ~present => storeResult' = "notFound"
               /\ (present /\ ~files[name].valid)
                    => storeResult' = "loadFailed"
               /\ (present /\ files[name].valid)
                    => /\ storeResult' = "loaded:" \o name
                       /\ conversationHistory' = ParsedHistory(files[name])
                       /\ toolUseCount' = files[name].toolUseCount
               /\ storeResult' \in {"notFound", "loadFailed"}
                    => UNCHANGED <<conversationHistory, toolUseCount>>
               /\ pc' = "idle"
               /\ chatKind' = chatKind]_vars

C24_LoadFailedAfterAToolTurn ==
  /\ storeResult \in {"notFound", "loadFailed"}
  /\ Len(conversationHistory) >= 3
  /\ toolUseCount >= 1

\* C25: if every model call succeeds and the confirmation callback returns
\* normally, chat returns normally for every model output: no chat call ends
\* with an exception that is not the model client's.
C25_ChatNeverThrowsOnModelOutput ==
  chatKind # "typeError"

\* C26: the token ceiling is checked only once per chat call, before the
\* first model call: a call ends with the warning only in the step that
\* starts it, with no model call made; once the loop runs, the estimate is
\* not recomputed and no step of the turn returns the warning.
C26_CeilingCheckedOnlyBeforeTheLoop ==
  [][/\ chatKind' = "warning"
          => /\ pc = "idle"
             /\ modelCalls' = 0
     /\ pc # "idle"
          => /\ estimatedTokens' = estimatedTokens
             /\ chatKind' # "warning"]_vars

\* the second model call of a turn has answered although the history it was
\* sent is at or over the ceiling
C26_ModelCalledOverTheCeiling ==
  /\ tokenLimit > 0
  /\ pc = "gate"
  /\ modelCalls = 2
  /\ SumTokens(SubSeq(conversationHistory, 1,
                      Len(conversationHistory) - 1)) >= tokenLimit

\* the step gives the invocation executeTool works on its result
InvocationSettles ==
  /\ InBatch(pc)
  /\ chatKind' # "typeError"
  /\ \/ ~InBatch(pc')
     \/ toolIndex' = toolIndex + 1

\* C27 as stated: the counter is incremented once for each parsed invocation
\* of the batch: no invocation gets its result without having been counted.
C27_EveryParsedInvocationCounted ==
  [][InvocationSettles => pc = "exec"]_vars

\* C27 as amended: the counter is incremented once for each invocation whose
\* tool starts to execute (found in the registry and not denied), in the step
\* that starts it, and no other step of a chat call changes it.
C27_EveryStartedInvocationCounted ==
  [][/\ (pc' = "exec" /\ pc # "exec") => toolUseCount' = toolUseCount + 1
     /\ (pc # "idle" /\ ~(pc' = "exec" /\ pc # "exec"))
          => toolUseCount' = toolUseCount
     /\ (pc = "idle" /\ pc' # "idle") => toolUseCount' = toolUseCount]_vars

\* a batch in which one invocation was not found and two were executed
C27_CountedTwiceOfThree ==
  /\ InBatch(pc)
  /\ toolIndex = 4
  /\ \E i \in 1..3 : toolResults[i] = NotFoundText(toolUses[i].name)
  /\ toolUseCount = 2

\* executeTool is at its gate with an invocation whose tool no descriptor of
\* the registry names
AtUnknownTool ==
  /\ pc = "gate"
  /\ \A i \in 1..Len(tools) : tools[i].name # toolUses[toolIndex].name

\* C28: an invocation naming a tool absent from the registry yields the text
\* "Error: Tool '<name>' not found" in the batch: in one step, without a
\* confirmation, without an execution and without counting it, and the batch
\* goes on to its next invocation or, after the last one, to the tool results
\* message and the next iteration.
C28_UnknownToolYieldsNotFoundText ==
  [][AtUnknownTool
       => LET name == toolUses[toolIndex].name
              results == Append(toolResults,
                                <<"Error: Tool '", name, "' not found">>)
          IN /\ pc' \notin {"confirm", "exec"}
             /\ toolUseCount' = toolUseCount
             /\ confirmState' = "none"
             /\ chatKind' \in {"running", "answer"}
             /\ IF toolIndex < Len(toolUses)
                THEN /\ toolResults' = results
                     /\ toolIndex' = toolIndex + 1
                     /\ pc' = "gate"
                     /\ UNCHANGED <<conversationHistory, toolUses>>
                ELSE /\ conversationHistory' =
                          Append(conversationHistory,
                                 ToolResultsMessage(results))
                     /\ pc' \in {"model", "idle"}]_vars

\* the dangerous-looking call of an unknown tool got its text under
\* confirmation mode, with a callback at hand, and the batch is at its next
\* invocation
C28_UnknownToolPassedOver ==
  /\ requireConfirmation
  /\ callback
  /\ pc = "gate"
  /\ toolIndex >= 2
  /\ toolResults[toolIndex - 1] =
       NotFoundText(toolUses[toolIndex - 1].name)

StartsWith(longer, shorter) ==
  /\ Len(shorter) <= Len(longer)
  /\ SubSeq(longer, 1, Len(shorter)) = shorter

\* C30: chat only appends to the history: in every step of a chat call, from
\* the one that pushes the user message to the one that returns an answer,
\* returns the token warning or throws, the history before the step starts
\* the history after it; so the history before the call starts the history
\* after it, every earlier message unchanged.
C30_ChatOnlyAppends ==
  [][(\/ pc # "idle"
      \/ \E userMessage \in UserMessages, withCallback \in BOOLEAN :
           ChatStart(userMessage, withCallback))
       => /\ StartsWith(conversationHistory', conversationHistory)
          /\ StartsWith(conversationHistory', historyAtStart')]_vars

\* a call that threw with its batch unfinished has left the user message and
\* the assistant message behind the history it started from
C30_AppendedBeforeTheThrow ==
  /\ chatKind = "typeError"
  /\ pc = "idle"
  /\ Len(historyAtStart) >= 3
  /\ Len(conversationHistory) = Len(historyAtStart) + 2

\* C22: in streaming mode no tool call is parsed, confirmed or executed while
\* the stream is delivering: as long as fragments arrive the batch is empty
\* and the history and the counter stay; when the stream has completed, the
\* concatenation in order of all its fragments is appended as the assistant
\* message and parsed, once.
C22_NothingParsedBeforeTheStreamEnds ==
  [][pc = "stream"
       => /\ toolUses = <<>> /\ toolIndex = 0 /\ toolResults = <<>>
          /\ confirmState = "none"
          /\ toolUseCount' = toolUseCount
          /\ pc' = "stream"
               => /\ UNCHANGED <<conversationHistory, toolUses, toolIndex>>
                  /\ \E n \in 0..Len(stream) :
                       /\ chunks' = chunks \o SubSeq(stream, 1, n)
                       /\ stream' = SubSeq(stream, n + 1, Len(stream))
          /\ (pc' # "stream" /\ chatKind' # "modelError")
               => /\ stream = <<>>
                  /\ conversationHistory' =
                       Append(conversationHistory,
                              Message("assistant", Flatten(chunks)))
                  /\ toolUses' = extractToolUses(Flatten(chunks))
                  /\ pc' = (IF toolUses' = <<>> THEN "idle" ELSE "gate")
     ]_vars

\* a dangerous call has arrived whole, more fragments are to come, and
\* nothing was done with it
C22_WholeBlockArrivedMidStream ==
  /\ pc = "stream"
  /\ requireConfirmation
  /\ stream # <<>>
  /\ extractToolUses(Flatten(chunks)) # <<>>

\* the deltas of every line of a body, the last line included whether or not
\* a line feed ends it
AllDeltas(body) == LinesYield(SplitLines(Flatten(body)))

StreamSettled == probe.fn = "chatStream" /\ probeResult.done

\* C29: chatStream yields, in order, the delta of every well-formed line of
\* the body and skips the other lines; what it yields depends on the body
\* only, not on its chunks, and includes the last line whether or not a line
\* feed ends it.
C29_StreamYieldsEveryLine ==
  StreamSettled => probeResult.value = AllDeltas(probe.parts)

\* the same for the bodies that a line feed ends, and for the empty body
C29_ExceptUnterminatedLastLine ==
  (/\ StreamSettled
   /\ LET text == Flatten(probe.parts)
      IN text = <<>> \/ text[Len(text)] = "\n")
    => probeResult.value = AllDeltas(probe.parts)

\* a line arrived in two chunks and was yielded
C29_LineCutInTwoYielded ==
  /\ StreamSettled
  /\ Len(probe.parts) = 2
  /\ probe.parts[1] = <<"{\"message\":{\"con">>
  /\ probeResult.value = <<"Hel", "lo">>

\* the messages a turn appends behind its user message: assistant messages
\* and tool results messages
TurnMessage(m) ==
  \/ m.role = "assistant"
  \/ m.role = "user" /\ m.content # <<>> /\ m.content[1] = "Tool results:\n"

\* C31: in the interactive session turns are serialized: a user message is
\* appended, that is, a chat call begins, only when no chat call is running;
\* while a call runs the history is the history it started from, its user
\* message, and then only messages of that turn.
C31_TurnsAreSerialized ==
  [][entry = "cli"
       => /\ (\E userMessage \in UserMessages :
                conversationHistory' =
                  Append(conversationHistory, Message("user", userMessage)))
               => pc = "idle"
          /\ pc # "idle"
               => /\ StartsWith(conversationHistory, historyAtStart)
                  /\ Len(conversationHistory) > Len(historyAtStart)
                  /\ conversationHistory[Len(historyAtStart) + 1]
                       \in {Message("user", userMessage) :
                              userMessage \in UserMessages}
                  /\ \A i \in (Len(historyAtStart) + 2)
                                ..Len(conversationHistory) :
                       TurnMessage(conversationHistory[i])]_vars

\* the second turn of a session is at its second model call
C31_SecondTurnUnderWay ==
  /\ entry = "cli"
  /\ pc = "model"
  /\ modelCalls = 1
  /\ Len(historyAtStart) >= 3

\* what load and list report for a name
Report(name) ==
  [file |-> files[PathOf(name)],
   listed |-> PathOf(name) \in {f \in DOMAIN files : files[f].exists}]

\* the step belongs to a save under name
SavesUnder(name) ==
  \E w \in DOMAIN writers :
    /\ writers'[w] # writers[w]
    /\ writers'[w].name = name

\* C32, first half: a save under one name never changes what load and list
\* report for a different name.
IsolatedByName ==
  [][\A n1 \in SaveNames : \A n2 \in SaveNames \ {n1} :
       SavesUnder(n1) => Report(n2)' = Report(n2)]_vars

\* the same for names that are different files
IsolatedByFile ==
  [][\A n1 \in SaveNames, n2 \in SaveNames :
       (PathOf(n1) # PathOf(n2) /\ SavesUnder(n1))
         => Report(n2)' = Report(n2)]_vars

\* C32, second half: when two writers have saved under one name, the file
\* holds the snapshot of the writer that finished last.
LastWriterWins ==
  \A name \in SaveNames :
    (/\ \A w \in DOMAIN writers : writers[w].order > 0
     /\ \A w \in DOMAIN writers : writers[w].name = name)
      => \E w \in DOMAIN writers :
           /\ writers[w].order = Cardinality(DOMAIN writers)
           /\ files[PathOf(name)] = writers[w].data

\* C32: saved sessions are isolated by name: a save under one name never
\* changes what load and list report for a different name, and when two
\* writers have saved under the same name the file holds the snapshot of the
\* writer that finished last.
C32_SavesIsolatedByName ==
  [][/\ \A n1 \in SaveNames : \A n2 \in SaveNames \ {n1} :
          SavesUnder(n1) => Report(n2)' = Report(n2)
     /\ LastWriterWins']_vars


(***************************************************************************)
(* C33.  A model response whose blocks are all malformed is a final        *)
(* answer: when the assistant message of such a response is appended, the  *)
(* same step ends the chat call with an answer; no tool use is parsed or   *)
(* executed, no further model call is made, only the assistant message is  *)
(* appended, and the returned text is the prose, with nothing of the       *)
(* blocks in it.                                                           *)
(***************************************************************************)
BlockTokens ==
  {TU_OPEN, TU_CLOSE, TN_OPEN, TN_CLOSE, P_OPEN, P_CLOSE, J_Bad, J_ReadA,
   "read_file"}

C33_AllMalformedIsAFinalAnswer ==
  [][conversationHistory' =
       Append(conversationHistory, Message("assistant", Flatten(AllMalformed)))
     => /\ pc' = "idle"
        /\ chatKind' = "answer"
        /\ toolUses' = <<>>
        /\ toolResults' = <<>>
        /\ toolUseCount' = toolUseCount
        /\ modelCalls' = modelCalls
        /\ chatResult' # <<>>
        /\ chatResult'[1] = "Sure."
        /\ chatResult'[Len(chatResult')] = "Done."
        /\ \A i \in DOMAIN chatResult' : chatResult'[i] \notin BlockTokens]_vars

C33_AnsweredWithMalformedBlocks ==
  /\ pc = "idle"
  /\ chatKind = "answer"
  /\ Len(conversationHistory) >= 2
  /\ conversationHistory[Len(conversationHistory)] =
       Message("assistant", Flatten(AllMalformed))


(***************************************************************************)
(* C34.  In every reachable state every assistant message of the history   *)
(* comes right after a message with role user; the step that leaves the    *)
(* loop at the ceiling leaves a history that ends with a 'Tool results:'   *)
(* user message, the step that leaves it for want of tool uses leaves one  *)
(* that ends with an assistant message.                                    *)
(***************************************************************************)
AssistantFollowsUser(history) ==
  \A i \in 1..Len(history) :
    history[i].role = "assistant" => i > 1 /\ history[i - 1].role = "user"

LastMessage(history) == history[Len(history)]

Rejected ==
  /\ pc = "idle"
  /\ chatKind = "warning"
  /\ tokenLimit > 0
  /\ estimatedTokens >= tokenLimit

\* the step is clearHistory
Clears ==
  /\ conversationHistory' = <<Message("system", SystemPrompt)>>
  /\ estimatedTokens' = 0

C35_RejectionIsSticky ==
  [][Rejected /\ ~Clears
     => /\ pc' = "idle"
        /\ chatKind' = "warning"
        /\ modelCalls' = 0
        /\ \E userMessage \in UserMessages :
             conversationHistory' =
               Append(conversationHistory, Message("user", userMessage))
        /\ chatResult' = TokenWarning(SumTokens(conversationHistory'),
                                      tokenLimit)
        /\ Rejected']_vars

\* two calls in a row were rejected
C35_RejectedTwiceInARow ==
  /\ Rejected
  /\ Len(conversationHistory) >= 3
  /\ historyAtStart =
       SubSeq(conversationHistory, 1, Len(conversationHistory) - 1)
  /\ conversationHistory[Len(conversationHistory) - 1].role = "user"
  /\ SumTokens(historyAtStart) >= tokenLimit


(***************************************************************************)
(* C36.  When chat returns an answer, the estimated-token counter is the   *)
(* sum of the estimates over the history up to and including the user      *)
(* message of that call; what the turn appended after it is not in the     *)
(* counter.                                                                *)
(***************************************************************************)
\* the history up to the user message of the running call
UpToUserMessage(history) == SubSeq(history, 1, Len(historyAtStart) + 1)

C36_EstimateCoversUpToTheUserMessage ==
  [][pc # "idle" /\ pc' = "idle" /\ chatKind' = "answer"
     => /\ Len(conversationHistory') > Len(historyAtStart) + 1
        /\ UpToUserMessage(conversationHistory')
             = Append(historyAtStart,
                      conversationHistory'[Len(historyAtStart) + 1])
        /\ conversationHistory'[Len(historyAtStart) + 1].role = "user"
        /\ estimatedTokens'
             = SumTokens(UpToUserMessage(conversationHistory'))]_vars

\* an answer after a tool turn: the counter is behind the history
C36_AnsweredWithCounterBehind ==
  /\ pc = "idle"
  /\ chatKind = "answer"
  /\ toolUseCount > 0
  /\ Len(conversationHistory) >= Len(historyAtStart) + 4
  /\ estimatedTokens = SumTokens(UpToUserMessage(conversationHistory))
  /\ estimatedTokens < SumTokens(conversationHistory)


(***************************************************************************)
(* C37.  saveConversation, listConversations, exportConversation,          *)
(* getStats, getHistory, isDangerousCommand and                            *)
(* getToolConfirmationMessage leave the history, the tool-use counter and  *)
(* the estimated-token counter as they are, whether they return, fail or   *)
(* throw; so does a caller that pushes on or pops from the array           *)
(* getHistory returned.                                                    *)
(***************************************************************************)
\* the step is one of the reading calls or a change of the returned array
ReaderStep == <<probe, probeResult>>' # <<probe, probeResult>>

\* the step is a saveConversation
SaveStep ==
  \/ files' # files
  \/ storeResult' # storeResult /\ storeResult' \in {"saved", "saveFailed"}

C37_ReadersLeaveTheAssistantAlone ==
  [][ReaderStep \/ SaveStep
     => /\ conversationHistory' = conversationHistory
        /\ toolUseCount' = toolUseCount
        /\ estimatedTokens' = estimatedTokens]_vars

\* after a tool turn the caller has pushed on the array it was given
C37_ReturnedArrayChanged ==
  /\ probe.fn = "getHistory"
  /\ probeResult.value.array # conversationHistory
  /\ Len(probeResult.value.array) = Len(conversationHistory) + 1
  /\ toolUseCount > 0
  /\ estimatedTokens > 0


(***************************************************************************)
(* C38.  After every call of a browser tool the browser handle and the     *)
(* page handle are both set or both absent; while both are absent a page   *)
(* operation fails with 'Browser not launched'; after a browserClose that  *)
(* succeeded both are absent.                                              *)
(***************************************************************************)
HandlesTogether == browser <=> page # NoPage

\* the step is a call of fn
Calls(fn) ==
  /\ probe'.fn = fn
  /\ <<probe, probeResult, browser, page>>'
       # <<probe, probeResult, browser, page>>

PageOperationsNeedThePage ==
  [][\A op \in PageOperations :
       ~browser /\ page = NoPage /\ Calls(op)
         => probeResult'.value = Failure(NotLaunched)]_vars

ClosedMeansBothAbsent ==
  [][Calls("browser_close") /\ probeResult'.value.success
       => ~browser' /\ page' = NoPage]_vars

C38_HandlesSetOrAbsentTogether ==
  /\ []HandlesTogether
  /\ PageOperationsNeedThePage
  /\ ClosedMeansBothAbsent

==============================================================================
